---------------------------- MODULE Spec2Model ----------------------------
(***************************************************************************)
(* Workflow builder: the graph model (useWorkflow), the connection         *)
(* validator (connectionValidation.ts), the input resolver                 *)
(* (collectLLMInputs), the history manager (useUndoRedo) and the editor    *)
(* page that wires them together (app/workflow/[id]/page.tsx).             *)
(*                                                                         *)
(* JavaScript values are modelled as follows: null and undefined are the   *)
(* strings Null and Undefined, an object is a TLA+ record whose domain is  *)
(* the object's own keys, an array is a sequence.                          *)
(***************************************************************************)
EXTENDS Integers, Sequences, FiniteSets, TLC

VARIABLES
  nodes,    \* useNodesState: the live node array
  edges,    \* useEdgesState: the live edge array
  past,     \* useUndoRedo: the undo stack (oldest first)
  future,   \* useUndoRedo: the redo stack (front is taken first)
  now,      \* Date.now(), the clock that node and edge ids are derived from
  caller,   \* the graph arrays a direct caller of the history hook holds
  ops,      \* the number of calls made that count against a specification's budget
  probe,    \* the last call made and what it returned
  runs,     \* handleLLMRun: the runs in flight and their write-backs
  saves     \* useAutoSave: its state, its requests and timers, and the store

vars == <<nodes, edges, past, future, now, caller, ops, probe, runs, saves>>

Null == "<null>"
Undefined == "<undefined>"

\* Bounds of the model.
MaxCycleEdges == 3
MaxValidatorEdges == 2
MaxOps == 4           \* editor actions in Spec
MaxNodes == 2         \* live nodes in Spec
MaxClock == 1         \* the latest clock reading in Spec
MaxSaves == 60        \* saveState calls in SpecHistoryCap
MaxOtherCalls == 1    \* undo / redo / pushToFuture / clearHistory calls there
MaxSnapshotOps == 3   \* calls and writes in SpecSnapshot
MaxResolverEdges == 2 \* edges of a graph handed to collectLLMInputs
MaxRuns == 1          \* runs started in SpecRun
MaxRunEdits == 2      \* editor actions in SpecRun
MaxOrderSaves == 3     \* saves of the caller whose undo and redo order is followed
MaxOrderCalls == 4     \* its undo, redo, pushToFuture and clearHistory calls
MaxOverlapRuns == 3    \* runs started in SpecOverlap
MaxOverlapEdits == 2   \* undo and redo actions in SpecOverlap
MaxPatchNodes == 2     \* nodes of a graph handed to updateNodeData
MaxAutoSaveEdits == 2  \* edits of the graph in SpecAutoSave

--------------------------------------------------------------------------
(* types/nodes.ts *)

TEXT_INPUT == "text"
IMAGE_INPUT == "image"
SYSTEM_PROMPT == "system"
LLM == "llm"
IMG_DESCRIBE == "imgDescribe"

NodeKinds == {TEXT_INPUT, IMAGE_INPUT, SYSTEM_PROMPT, LLM, IMG_DESCRIBE}

\* A node type no table knows (addNode takes any string).
UnknownKind == "custom"

HandleKinds == {"text", "image", "system"}

--------------------------------------------------------------------------
(* Array helpers (Array.prototype.find / filter / map) *)

Last(s) == s[Len(s)]
Front(s) == SubSeq(s, 1, Len(s) - 1)

Range(s) == {s[i] : i \in 1..Len(s)}

\* What Array.prototype.find returns when nothing matches (undefined).
NoNode == [missing |-> TRUE]

\* nodes.find((n) => n.id === id): the first match, or undefined
FindNode(ns, id) ==
  IF \E i \in 1..Len(ns) : ns[i].id = id
  THEN ns[CHOOSE i \in 1..Len(ns) :
             /\ ns[i].id = id
             /\ \A j \in 1..(i - 1) : ns[j].id # id]
  ELSE NoNode

\* sourceNode?.type
TypeOf(n) == IF n = NoNode THEN Undefined ELSE n.type

\* All sequences over S of length at most n.
SeqsUpTo(S, n) == UNION {[1..k -> S] : k \in 0..n}

--------------------------------------------------------------------------
(* lib/utils/connectionValidation.ts *)

NODE_OUTPUT_TYPE_ImageAsText(nodeType) ==
  CASE nodeType = TEXT_INPUT -> "text"
    [] nodeType = IMAGE_INPUT -> "text"
    [] nodeType = SYSTEM_PROMPT -> "system"
    [] nodeType = LLM -> "text"
    [] nodeType = IMG_DESCRIBE -> "text"
    [] OTHER -> Undefined

NODE_OUTPUT_TYPE(nodeType) ==
  CASE nodeType = TEXT_INPUT -> "text"
    [] nodeType = IMAGE_INPUT -> "image"
    [] nodeType = SYSTEM_PROMPT -> "system"
    [] nodeType = LLM -> "text"
    [] nodeType = IMG_DESCRIBE -> "text"
    [] OTHER -> Undefined

\* !x for a string | null | undefined
Falsy(x) == x = Null \/ x = Undefined \/ x = ""

\* A node id is `${type}-${Date.now()}`, modelled as the pair <<type, time>>;
\* NoId is a null / empty id (connection.source and .target are string | null).
NoId == <<>>
FalsyId(x) == x = NoId

getNodeOutputType(nodeType) ==
  IF Falsy(nodeType) THEN Null
  ELSE IF NODE_OUTPUT_TYPE(nodeType) = Undefined THEN Null
  ELSE NODE_OUTPUT_TYPE(nodeType)

\* A compatibility check that compares whenever the output type is known.
isHandleCompatibleStrict(sourceNodeType, targetHandleId) ==
  LET outputType == getNodeOutputType(sourceNodeType) IN
  IF Falsy(outputType) THEN TRUE
  ELSE outputType = targetHandleId

isHandleCompatible(sourceNodeType, targetHandleId) ==
  LET outputType == getNodeOutputType(sourceNodeType) IN
  IF Falsy(outputType) THEN TRUE
  ELSE IF Falsy(targetHandleId) \/ targetHandleId = "output" THEN TRUE
  ELSE outputType = targetHandleId

\* adjacencyList.get(n) ?? []: the targets of n's outgoing edges, in edge order
AdjacencyReversed(es, n) ==
  LET out == SelectSeq(es, LAMBDA e : e.target = n) IN
  [i \in 1..Len(out) |-> out[i].source]

Adjacency(es, n) ==
  LET out == SelectSeq(es, LAMBDA e : e.source = n) IN
  [i \in 1..Len(out) |-> out[i].target]

\* The while loop of wouldCreateCycle: one iteration per unfolding.
RECURSIVE CycleDfs(_, _, _, _)
CycleDfs(stack, visited, sourceId, es) ==
  IF Len(stack) = 0 THEN FALSE
  ELSE
    LET current == Last(stack)
        rest == Front(stack)
    IN
    IF current = sourceId THEN TRUE
    ELSE IF current \in visited THEN CycleDfs(rest, visited, sourceId, es)
    ELSE
      LET visited2 == visited \cup {current}
          neighbors == Adjacency(es, current)
          pushed == SelectSeq(neighbors, LAMBDA x : x \notin visited2)
      IN CycleDfs(rest \o pushed, visited2, sourceId, es)

\* What a run of the loop did: its result, the number of iterations, and
\* the nodes it added to visited, in order.
DfsRun(result, iterations, expanded) ==
  [result |-> result, iterations |-> iterations, expanded |-> expanded]

\* The loop without its `if (visited.has(current)) continue`.
RECURSIVE CycleDfsRunNoSkip(_, _, _, _, _, _)
CycleDfsRunNoSkip(stack, visited, sourceId, es, iterations, expanded) ==
  IF Len(stack) = 0 THEN DfsRun(FALSE, iterations, expanded)
  ELSE
    LET current == Last(stack)
        rest == Front(stack)
    IN
    IF current = sourceId THEN DfsRun(TRUE, iterations + 1, expanded)
    ELSE
      LET visited2 == visited \cup {current}
          neighbors == Adjacency(es, current)
          pushed == SelectSeq(neighbors, LAMBDA x : x \notin visited2)
      IN CycleDfsRunNoSkip(rest \o pushed, visited2, sourceId, es, iterations + 1,
                           Append(expanded, current))

\* The while loop of wouldCreateCycle again, counting its iterations and
\* listing the nodes it adds to visited.
RECURSIVE CycleDfsRun(_, _, _, _, _, _)
CycleDfsRun(stack, visited, sourceId, es, iterations, expanded) ==
  IF Len(stack) = 0 THEN DfsRun(FALSE, iterations, expanded)
  ELSE
    LET current == Last(stack)
        rest == Front(stack)
    IN
    IF current = sourceId THEN DfsRun(TRUE, iterations + 1, expanded)
    ELSE IF current \in visited
    THEN CycleDfsRun(rest, visited, sourceId, es, iterations + 1, expanded)
    ELSE
      LET visited2 == visited \cup {current}
          neighbors == Adjacency(es, current)
          pushed == SelectSeq(neighbors, LAMBDA x : x \notin visited2)
      IN CycleDfsRun(rest \o pushed, visited2, sourceId, es, iterations + 1,
                     Append(expanded, current))

\* wouldCreateCycle(sourceId, targetId, edges), with what its loop did
wouldCreateCycleRun(sourceId, targetId, es) ==
  IF sourceId = targetId THEN DfsRun(TRUE, 0, <<>>)
  ELSE CycleDfsRun(<<targetId>>, {}, sourceId, es, 0, <<>>)

wouldCreateCycle(sourceId, targetId, es) ==
  IF sourceId = targetId THEN TRUE
  ELSE CycleDfs(<<targetId>>, {}, sourceId, es)

isValidConnectionNoCycleCheck(connection, ns, es) ==
  IF FalsyId(connection.source) \/ FalsyId(connection.target) THEN FALSE
  ELSE isHandleCompatible(TypeOf(FindNode(ns, connection.source)),
                          connection.targetHandle)

\* useWorkflow.isValidConnection, reading the store's nodes and edges
isValidConnection(connection, ns, es) ==
  IF FalsyId(connection.source) \/ FalsyId(connection.target) THEN FALSE
  ELSE
    LET sourceNode == FindNode(ns, connection.source) IN
    IF ~isHandleCompatible(TypeOf(sourceNode), connection.targetHandle)
    THEN FALSE
    ELSE IF wouldCreateCycle(connection.source, connection.target, es)
    THEN FALSE
    ELSE TRUE

--------------------------------------------------------------------------
(* Graph theory, stated independently of the code *)

\* The nodes reachable from n along edges of es (n itself included).
RECURSIVE ReachFrom(_, _)
ReachFrom(S, es) ==
  LET next == S \cup {e.target : e \in {x \in Range(es) : x.source \in S}} IN
  IF next = S THEN S ELSE ReachFrom(next, es)

Reachable(from, to, es) == to \in ReachFrom({from}, es)

\* Some node reaches itself along at least one edge.
HasCycle(es) ==
  \E e \in Range(es) : Reachable(e.target, e.source, es)


--------------------------------------------------------------------------
(* Values the specifications draw their inputs from *)

\* getInitialNodeData(type)
getInitialNodeData(type) ==
  CASE type = TEXT_INPUT -> [label |-> "Prompt", content |-> ""]
    [] type = SYSTEM_PROMPT -> [label |-> "System Prompt", content |-> ""]
    [] type = IMAGE_INPUT ->
         [label |-> "Image Input", imageData |-> Null, fileName |-> Null,
          mimeType |-> Null]
    [] type = LLM ->
         [label |-> "Any LLM", model |-> "default", output |-> "",
          isLoading |-> FALSE, error |-> Null]
    [] type = IMG_DESCRIBE ->
         [label |-> "Image Describe", model |-> "default",
          prompt |-> "describe", output |-> "", isLoading |-> FALSE,
          error |-> Null]
    [] OTHER -> [label |-> type]

\* The node addNode(type, _) creates at time t.
NewNode(type, t) ==
  [id |-> <<type, t>>, type |-> type, data |-> getInitialNodeData(type)]

\* The edge onConnect creates for a connection at time t.
NewEdge(connection, t) ==
  [id |-> <<connection.source, connection.target, t>>,
   source |-> connection.source, target |-> connection.target,
   targetHandle |-> connection.targetHandle]

Conn(s, t, h) == [source |-> s, target |-> t, targetHandle |-> h]

NoProbe == [fn |-> "none"]

\* The runs of the editor: those waiting for the collaborator, how many were
\* started, the page's isLLMRunning flag, and the write-backs issued so far.
NoRuns == [pending |-> {}, started |-> 0, isLLMRunning |-> FALSE, written |-> <<>>]

\* useAutoSave after the first render.  Graph data is a version number (0 is
\* what was loaded, every edit makes the next one); a controller is the
\* number of the performSave call that made it (0 is the null ref);
\* lastSavedAt is the number of the call whose return set it (0 is null).
NoSaves ==
  [saveStatus |-> "idle", error |-> Null, lastSavedAt |-> 0,
   version |-> 0, debounce |-> FALSE,
   made |-> 0, current |-> 0, aborted |-> {},
   inflight |-> {}, timers |-> {}, store |-> 0]

\* Four LLM nodes, the A, B, C, D of the cycle examples.
A == <<LLM, 1>>
B == <<LLM, 2>>
C == <<LLM, 3>>
D == <<LLM, 4>>
CycleIds == {A, B, C, D}
CycleNodes == <<NewNode(LLM, 1), NewNode(LLM, 2), NewNode(LLM, 3), NewNode(LLM, 4)>>
CycleEdges == {NewEdge(Conn(s, t, "text"), 0) : s \in CycleIds, t \in CycleIds}

--------------------------------------------------------------------------
(* hooks/useUndoRedo: the history manager *)

MAX_HISTORY_SIZE == 50

\* An array object is a value together with its identity.  Unshared is the
\* identity of an array nothing mutates in place: React state (replaced, never
\* written) and the result of JSON.parse (referenced by its holder alone).
Unshared == 0
Arr(ref, val) == [ref |-> ref, val |-> val]

\* JSON.parse(JSON.stringify(x)) of a node's data: a key whose value is
\* undefined is dropped, everything else (strings, booleans, null) is kept.
JsonData(d) ==
  [k \in {x \in DOMAIN d : x = "isLoading" \/ d[x] # Undefined} |-> d[k]]

JsonNode(n) == [id |-> n.id, type |-> n.type, data |-> JsonData(n.data)]

JsonEdge(e) ==
  [k \in {x \in DOMAIN e : x # "targetHandle" \/ e[x] # Undefined} |-> e[k]]

\* Storing the caller's array itself instead of a copy.
JsonCloneNodesAlias(a) == a

\* JSON.parse(JSON.stringify(nodes)): a new array of new objects
JsonCloneNodes(a) ==
  Arr(Unshared, [i \in 1..Len(a.val) |-> JsonNode(a.val[i])])

JsonCloneEdges(a) ==
  Arr(Unshared, [i \in 1..Len(a.val) |-> JsonEdge(a.val[i])])

\* const entry = { nodes: clone(nodes), edges: clone(edges) }
HistoryEntry(ns, es) == [nodes |-> JsonCloneNodes(ns), edges |-> JsonCloneEdges(es)]

\* slice(0, MAX_HISTORY_SIZE): the newest entries are the ones dropped.
PastAfterSaveKeepOldest(prev, entry) ==
  LET newPast == Append(prev, entry) IN
  IF Len(newPast) > MAX_HISTORY_SIZE
  THEN SubSeq(newPast, 1, MAX_HISTORY_SIZE)
  ELSE newPast

\* saveState's setPast((prev) => ...)
PastAfterSave(prev, entry) ==
  LET newPast == Append(prev, entry) IN
  IF Len(newPast) > MAX_HISTORY_SIZE
  THEN SubSeq(newPast, Len(newPast) - MAX_HISTORY_SIZE + 1, Len(newPast))
  ELSE newPast

\* A history state is the pair of stacks, h = [past, future].
Hist(p, f) == [past |-> p, future |-> f]

\* saveState(nodes, edges, clearFutureStack)
saveState(h, ns, es, clearFutureStack) ==
  Hist(PastAfterSave(h.past, HistoryEntry(ns, es)),
       IF clearFutureStack THEN <<>> ELSE h.future)

\* The null that undo() and redo() return on an empty stack.
NullEntry == [null |-> TRUE]

\* undo(): [result, h'], result null when past is empty
undo(h) ==
  IF Len(h.past) = 0 THEN [result |-> NullEntry, h |-> h]
  ELSE [result |-> Last(h.past), h |-> Hist(Front(h.past), h.future)]

\* A redo that takes the entry at the back of future.
redoFromBack(h) ==
  IF Len(h.future) = 0 THEN [result |-> NullEntry, h |-> h]
  ELSE [result |-> Last(h.future), h |-> Hist(h.past, Front(h.future))]

\* redo(): [result, h'], result null when future is empty
redo(h) ==
  IF Len(h.future) = 0 THEN [result |-> NullEntry, h |-> h]
  ELSE [result |-> Head(h.future), h |-> Hist(h.past, Tail(h.future))]

\* pushToFuture(nodes, edges)
pushToFuture(h, ns, es) ==
  Hist(h.past, <<HistoryEntry(ns, es)>> \o h.future)

\* clearHistory()
clearHistory(h) == Hist(<<>>, <<>>)

--------------------------------------------------------------------------
(* hooks/useWorkflow: the graph mutators *)

\* A patch that replaces the data instead of merging into it.
ReplaceData(d, patch) == patch

\* { ...node.data, ...data }
ShallowMerge(d, patch) ==
  [k \in DOMAIN d \cup DOMAIN patch |-> IF k \in DOMAIN patch THEN patch[k] ELSE d[k]]

updateNodeData(ns, nodeId, patch) ==
  [i \in 1..Len(ns) |->
     IF ns[i].id = nodeId
     THEN [ns[i] EXCEPT !.data = ShallowMerge(ns[i].data, patch)]
     ELSE ns[i]]

\* deleteNode's setEdges filter
EdgesWithoutNodeSourceOnly(es, nodeId) ==
  SelectSeq(es, LAMBDA e : e.source # nodeId)

EdgesWithoutNode(es, nodeId) ==
  SelectSeq(es, LAMBDA e : e.source # nodeId /\ e.target # nodeId)

\* deleteNode's setNodes filter
NodesWithoutNode(ns, nodeId) == SelectSeq(ns, LAMBDA n : n.id # nodeId)

deleteEdge(es, edgeId) == SelectSeq(es, LAMBDA e : e.id # edgeId)

addNode(ns, type, t) == Append(ns, NewNode(type, t))

\* reactflow's addEdge(newEdge, eds): nothing is added without a source and a
\* target, or when an edge between the same handles exists already (every
\* source handle of this editor is "output").
addEdge(newEdge, eds) ==
  IF FalsyId(newEdge.source) \/ FalsyId(newEdge.target) THEN eds
  ELSE IF \E i \in 1..Len(eds) :
            /\ eds[i].source = newEdge.source
            /\ eds[i].target = newEdge.target
            /\ eds[i].targetHandle = newEdge.targetHandle
       THEN eds
       ELSE Append(eds, newEdge)

onConnect(es, connection, t) == addEdge(NewEdge(connection, t), es)

--------------------------------------------------------------------------
(* app/workflow/[id]/page.tsx: the editor's handlers, as functions of the  *)
(* editor state st = [nodes, edges, past, future]                          *)

EditorState(ns, es, p, f) == [nodes |-> ns, edges |-> es, past |-> p, future |-> f]

St == EditorState(nodes, edges, past, future)

HistOf(st) == Hist(st.past, st.future)

\* The live arrays are React state: replaced on every change, never written.
LiveNodes(st) == Arr(Unshared, st.nodes)
LiveEdges(st) == Arr(Unshared, st.edges)

\* saveState(nodes, edges) as the handlers call it before an edit
Snapshot(st) == saveState(HistOf(st), LiveNodes(st), LiveEdges(st), TRUE)

handleAddNode(st, type, t) ==
  LET h == Snapshot(st) IN
  EditorState(addNode(st.nodes, type, t), st.edges, h.past, h.future)

\* createDeleteHandler(nodeId)(), and onDelete with a node selected
handleDeleteNode(st, nodeId) ==
  LET h == Snapshot(st) IN
  EditorState(NodesWithoutNode(st.nodes, nodeId), EdgesWithoutNode(st.edges, nodeId),
              h.past, h.future)

\* onDelete with an edge selected
handleDeleteEdge(st, edgeId) ==
  LET h == Snapshot(st) IN
  EditorState(st.nodes, deleteEdge(st.edges, edgeId), h.past, h.future)

\* <Canvas onConnect={onConnect}>: the hook's onConnect, which saves nothing
handleConnect(st, connection, t) ==
  EditorState(st.nodes, onConnect(st.edges, connection, t), st.past, st.future)

handleTextChange(st, nodeId, content) ==
  EditorState(updateNodeData(st.nodes, nodeId, [content |-> content]), st.edges,
              st.past, st.future)

\* handleUndo without the pushToFuture call.
handleUndoNoPush(st) ==
  LET r == undo(HistOf(st)) IN
  IF r.result # NullEntry
  THEN EditorState(r.result.nodes.val, r.result.edges.val, r.h.past, r.h.future)
  ELSE EditorState(st.nodes, st.edges, r.h.past, r.h.future)

handleUndo(st) ==
  LET h1 == pushToFuture(HistOf(st), LiveNodes(st), LiveEdges(st))
      r == undo(h1)
  IN
  IF r.result # NullEntry
  THEN EditorState(r.result.nodes.val, r.result.edges.val, r.h.past, r.h.future)
  ELSE EditorState(st.nodes, st.edges, r.h.past, r.h.future)

handleRedo(st) ==
  LET h1 == saveState(HistOf(st), LiveNodes(st), LiveEdges(st), FALSE)
      r == redo(h1)
  IN
  IF r.result # NullEntry
  THEN EditorState(r.result.nodes.val, r.result.edges.val, r.h.past, r.h.future)
  ELSE EditorState(st.nodes, st.edges, r.h.past, r.h.future)

\* The target handles each node component renders.
TargetHandles(type) ==
  CASE type = LLM -> {"system", "text", "image"}
    [] type = IMG_DESCRIBE -> {"image"}
    [] OTHER -> {}

\* The connections the canvas lets the user draw: from a node's "output"
\* source handle to a target handle of a node.
Drawable(ns) ==
  {Conn(ns[i].id, ns[j].id, h) :
     i \in 1..Len(ns), j \in 1..Len(ns), h \in HandleKinds} \cap
  {c \in [source : {ns[i].id : i \in 1..Len(ns)},
          target : {ns[i].id : i \in 1..Len(ns)},
          targetHandle : HandleKinds] :
     c.targetHandle \in TargetHandles(TypeOf(FindNode(ns, c.target)))}

\* The isValidConnection the editor page hands to <Canvas>: none, so
\* ReactFlow accepts every connection drawn.
CanvasIsValidConnection(connection, ns, es) == TRUE

--------------------------------------------------------------------------
(* Spec: the editor, from an empty workflow *)

\* The palette the specification draws from: a source-only kind and a kind
\* with target handles (image and system nodes are edited exactly as text
\* nodes are, an image-describe node as an LLM node).
EditorKinds == {TEXT_INPUT, LLM}
EditorContents == {"", "A"}

\* Date.now() at an event: the previous reading or the next tick.
Readings == {t \in {now, now + 1} : t <= MaxClock}

Init ==
  /\ nodes = <<>>
  /\ edges = <<>>
  /\ past = <<>>
  /\ future = <<>>
  /\ now = 0
  /\ caller = Null
  /\ ops = 0
  /\ probe = NoProbe
  /\ runs = NoRuns
  /\ saves = NoSaves

\* The editor state st becomes the current one; one more action is counted.
Becomes(st) ==
  /\ ops < MaxOps
  /\ nodes' = st.nodes
  /\ edges' = st.edges
  /\ past' = st.past
  /\ future' = st.future
  /\ ops' = ops + 1
  /\ UNCHANGED <<caller, probe>>
  /\ UNCHANGED <<runs, saves>>

AddNode ==
  /\ Len(nodes) < MaxNodes
  /\ \E type \in EditorKinds, t \in Readings :
       /\ Becomes(handleAddNode(St, type, t))
       /\ now' = t

Connect ==
  \E c \in Drawable(nodes), t \in Readings :
    /\ CanvasIsValidConnection(c, nodes, edges)
    /\ Becomes(handleConnect(St, c, t))
    /\ now' = t

DeleteNode ==
  /\ \E i \in 1..Len(nodes) : Becomes(handleDeleteNode(St, nodes[i].id))
  /\ UNCHANGED now

DeleteEdge ==
  /\ \E i \in 1..Len(edges) : Becomes(handleDeleteEdge(St, edges[i].id))
  /\ UNCHANGED now

TextChange ==
  /\ \E i \in 1..Len(nodes), content \in EditorContents :
       /\ nodes[i].type \in {TEXT_INPUT, SYSTEM_PROMPT}
       /\ nodes[i].data.content # content
       /\ Becomes(handleTextChange(St, nodes[i].id, content))
  /\ UNCHANGED now

Undo ==
  /\ Becomes(handleUndo(St))
  /\ UNCHANGED now

Redo ==
  /\ Becomes(handleRedo(St))
  /\ UNCHANGED now

Next ==
  \/ AddNode
  \/ Connect
  \/ DeleteNode
  \/ DeleteEdge
  \/ TextChange
  \/ Undo
  \/ Redo

Spec == Init /\ [][Next]_vars

\* C1: the live edge set contains no directed cycle.
C1_Acyclic == ~HasCycle(edges)

RECURSIVE UndoTimes(_, _)
UndoTimes(st, k) == IF k = 0 THEN st ELSE UndoTimes(handleUndo(st), k - 1)

RECURSIVE RedoTimes(_, _)
RedoTimes(st, k) == IF k = 0 THEN st ELSE RedoTimes(handleRedo(st), k - 1)

\* A step of an editing action that saves the state first.
SavingEdit == AddNode \/ DeleteNode \/ DeleteEdge

\* k undo actions and then k redo actions give back the live graph and the
\* past stack, for every k up to the number of past entries.
RoundTrips ==
  \A k \in 0..Len(past) :
    LET back == RedoTimes(UndoTimes(St, k), k) IN
    /\ back.nodes = nodes
    /\ back.edges = edges
    /\ back.past = past

\* C6: an edit that saves S0 and makes the graph S1 leaves S0 on top of
\* past; an undo then makes the graph S0 and a redo right after it makes the
\* graph S1 again; and k undos followed by k redos (k at most the number of
\* past entries) restore the live graph and the past stack.
C6_UndoRedoRoundTrip ==
  /\ [][SavingEdit =>
          LET undone == handleUndo(St') IN
          /\ undone.nodes = nodes
          /\ undone.edges = edges
          /\ handleRedo(undone).nodes = nodes'
          /\ handleRedo(undone).edges = edges']_vars
  /\ []RoundTrips

\* Two states were saved, an undo has been made, and two undos from here
\* pass through two other graphs before the redos come back.
C6_Witness ==
  /\ Len(past) >= 2
  /\ future # <<>>
  /\ handleUndo(St).nodes # nodes
  /\ UndoTimes(St, 2).nodes # handleUndo(St).nodes
  /\ RedoTimes(UndoTimes(St, 2), 2).nodes = nodes

\* A step of a fresh editing action that changes the graph.
FreshEdit ==
  /\ AddNode \/ DeleteNode \/ Connect \/ DeleteEdge \/ TextChange
  /\ <<nodes, edges>>' # <<nodes, edges>>

\* C7: every fresh editing action that changes the graph (add node, delete
\* node, connect, delete edge, node-data patch) leaves the future stack
\* empty.
C7_FutureClearedByEdit == [][FreshEdit => future' = <<>>]_vars

\* The result of deleteNode(n) on the current state: n is gone, every edge
\* from or to n is gone, and nothing else is.
DeleteNodeCascades ==
  \A i \in 1..Len(nodes) :
    LET n == nodes[i].id
        after == handleDeleteNode(St, n)
    IN
    /\ Range(after.nodes) = {x \in Range(nodes) : x.id # n}
    /\ Range(after.edges) = {e \in Range(edges) : e.source # n /\ e.target # n}

\* Every live edge has its source and its target among the live nodes.
NoDanglingEdge ==
  \A i \in 1..Len(edges) :
    /\ FindNode(nodes, edges[i].source) # NoNode
    /\ FindNode(nodes, edges[i].target) # NoNode

\* C9: deleteNode(n) removes n and every edge whose source or target is n,
\* and every edge of the live edge set has both ends in the live node set.
C9_ReferentialIntegrity == DeleteNodeCascades /\ NoDanglingEdge

\* A node with an edge on it has just been removed: the state saved before
\* the removal holds an edge whose end is no longer a live node.
C9_Witness ==
  /\ Len(past) > 0
  /\ \E e \in Range(Last(past).edges.val) :
       \/ FindNode(nodes, e.source) = NoNode
       \/ FindNode(nodes, e.target) = NoNode


--------------------------------------------------------------------------
(* SpecHistoryCap: a direct caller of the hook saving one state after      *)
(* another, each a different graph, with a few other calls in between.     *)

\* The graph the caller holds at its n-th save or push: one text node made
\* at time n.  The caller gets new arrays for every call (as a React render
\* does), so array number n is a different object from array number n + 1.
CallerGraph(n) ==
  [nodes |-> Arr(n, <<NewNode(TEXT_INPUT, n)>>), edges |-> Arr(n, <<>>)]

InitHistory ==
  /\ nodes = <<>>
  /\ edges = <<>>
  /\ past = <<>>
  /\ future = <<>>
  /\ now = 0
  /\ caller = CallerGraph(1)
  /\ ops = 0
  /\ probe = NoProbe
  /\ runs = NoRuns
  /\ saves = NoSaves

H == Hist(past, future)

\* saveState(nodes, edges[, clearFutureStack]) on the caller's graph, which
\* the next render then replaces
HSaveState(maxSaves) ==
  /\ now < maxSaves
  /\ \E clearFutureStack \in BOOLEAN :
       LET h2 == saveState(H, caller.nodes, caller.edges, clearFutureStack) IN
       /\ past' = h2.past
       /\ future' = h2.future
       /\ probe' = [fn |-> "saveState"]
  /\ now' = now + 1
  /\ caller' = CallerGraph(now + 2)
  /\ UNCHANGED <<nodes, edges, ops>>
  /\ UNCHANGED <<runs, saves>>

HUndo(maxOther) ==
  /\ ops < maxOther
  /\ LET r == undo(H) IN
       /\ past' = r.h.past
       /\ future' = r.h.future
       /\ probe' = [fn |-> "undo", result |-> r.result]
  /\ ops' = ops + 1
  /\ UNCHANGED <<nodes, edges, now, caller>>
  /\ UNCHANGED <<runs, saves>>

HRedo(maxOther) ==
  /\ ops < maxOther
  /\ LET r == redo(H) IN
       /\ past' = r.h.past
       /\ future' = r.h.future
       /\ probe' = [fn |-> "redo", result |-> r.result]
  /\ ops' = ops + 1
  /\ UNCHANGED <<nodes, edges, now, caller>>
  /\ UNCHANGED <<runs, saves>>

HPushToFuture(maxOther) ==
  /\ ops < maxOther
  /\ LET h2 == pushToFuture(H, caller.nodes, caller.edges) IN
       /\ past' = h2.past
       /\ future' = h2.future
  /\ probe' = [fn |-> "pushToFuture"]
  /\ ops' = ops + 1
  /\ UNCHANGED <<nodes, edges, now, caller>>
  /\ UNCHANGED <<runs, saves>>

HClearHistory(maxOther) ==
  /\ ops < maxOther
  /\ past' = clearHistory(H).past
  /\ future' = clearHistory(H).future
  /\ probe' = [fn |-> "clearHistory"]
  /\ ops' = ops + 1
  /\ UNCHANGED <<nodes, edges, now, caller>>
  /\ UNCHANGED <<runs, saves>>

NextHistoryCap ==
  \/ HSaveState(MaxSaves)
  \/ HUndo(MaxOtherCalls)
  \/ HRedo(MaxOtherCalls)
  \/ HPushToFuture(MaxOtherCalls)
  \/ HClearHistory(MaxOtherCalls)

SpecHistoryCap == InitHistory /\ [][NextHistoryCap]_vars

\* The entry a save of the caller's n-th graph stores.
SavedEntry(n) ==
  [nodes |-> Arr(Unshared, <<NewNode(TEXT_INPUT, n)>>), edges |-> Arr(Unshared, <<>>)]

Min(a, b) == IF a < b THEN a ELSE b

\* C5: past never holds more than 50 entries, and after n consecutive
\* saveState calls (n up to 60 and beyond the cap) past is exactly the
\* min(n, 50) most recently saved states, in save order.
C5_HistoryBound ==
  /\ Len(past) <= 50
  /\ ops = 0 =>
       past = [i \in 1..Min(now, 50) |-> SavedEntry(now - Min(now, 50) + i)]

\* Sixty saves were made in a row: the first ten are gone.
C5_Witness ==
  /\ ops = 0
  /\ now = 60
  /\ Len(past) = 50
  /\ past[1] = SavedEntry(11)
  /\ past[50] = SavedEntry(60)

--------------------------------------------------------------------------
(* SpecHistoryOrder: the same caller with few saves and several undo,      *)
(* redo and pushToFuture calls between them.                               *)

NextHistoryOrder ==
  \/ HSaveState(MaxOrderSaves)
  \/ HUndo(MaxOrderCalls)
  \/ HRedo(MaxOrderCalls)
  \/ HPushToFuture(MaxOrderCalls)
  \/ HClearHistory(MaxOrderCalls)

SpecHistoryOrder == InitHistory /\ [][NextHistoryOrder]_vars

\* The number of the caller's graph an entry holds.  The caller's graphs are
\* numbered in the order it gets them, so of two entries pushed on a stack
\* the one with the larger number was pushed later, and two entries with the
\* same number are the same entry.
GraphNumber(entry) == entry.nodes.val[1].id[2]

RemoveAt(s, i) == SubSeq(s, 1, i - 1) \o SubSeq(s, i + 1, Len(s))

\* The call returned the entry of stack that was pushed latest (earliest)
\* and took that entry, and nothing else, off the stack.
TookLatest(stack, result, stackAfter) ==
  \E i \in 1..Len(stack) :
    /\ \A j \in 1..Len(stack) : GraphNumber(stack[j]) <= GraphNumber(stack[i])
    /\ result = stack[i]
    /\ stackAfter = RemoveAt(stack, i)

TookEarliest(stack, result, stackAfter) ==
  \E i \in 1..Len(stack) :
    /\ \A j \in 1..Len(stack) : GraphNumber(stack[j]) >= GraphNumber(stack[i])
    /\ result = stack[i]
    /\ stackAfter = RemoveAt(stack, i)

\* undo() on a step: null and no change on an empty past, otherwise the
\* entry of past pushed latest.
UndoTakesLatest ==
  HUndo(MaxOrderCalls) =>
    /\ future' = future
    /\ IF past = <<>>
       THEN probe'.result = NullEntry /\ past' = past
       ELSE TookLatest(past, probe'.result, past')

\* C19 as stated: redo() removes and returns the entry of future that was
\* pushed earliest by pushToFuture, undo() removes and returns the entry of
\* past that was pushed latest, and each returns null and changes nothing
\* when its stack is empty.
C19_Original ==
  [][/\ UndoTakesLatest
     /\ HRedo(MaxOrderCalls) =>
          /\ past' = past
          /\ IF future = <<>>
             THEN probe'.result = NullEntry /\ future' = future
             ELSE TookEarliest(future, probe'.result, future')]_vars

\* C19 as the code has it: redo() removes and returns the entry of future
\* that was pushed latest by pushToFuture, undo() removes and returns the
\* entry of past that was pushed latest (both stacks are last in, first
\* out), and each returns null and changes nothing when its stack is empty.
C19_Amended ==
  [][/\ UndoTakesLatest
     /\ HRedo(MaxOrderCalls) =>
          /\ past' = past
          /\ IF future = <<>>
             THEN probe'.result = NullEntry /\ future' = future
             ELSE TookLatest(future, probe'.result, future')]_vars

\* A redo has just returned an entry pushed later than one still in future.
C19_Witness ==
  /\ probe.fn = "redo"
  /\ probe.result # NullEntry
  /\ future # <<>>
  /\ GraphNumber(future[1]) < GraphNumber(probe.result)

--------------------------------------------------------------------------
(* SpecSnapshot: a caller of the hook that keeps its node and edge arrays  *)
(* between calls and changes the graph either by writing into them in      *)
(* place or, as React state does, by replacing them.                       *)

\* The graph the caller starts with: a text node wired to an LLM node.
SnapshotGraph ==
  [nodes |-> Arr(1, <<NewNode(TEXT_INPUT, 1), NewNode(LLM, 2)>>),
   edges |-> Arr(1, <<NewEdge(Conn(<<TEXT_INPUT, 1>>, <<LLM, 2>>, "text"), 3)>>)]

InitSnapshot ==
  /\ nodes = <<>>
  /\ edges = <<>>
  /\ past = <<>>
  /\ future = <<>>
  /\ now = 0
  /\ caller = SnapshotGraph
  /\ ops = 0
  /\ probe = NoProbe
  /\ runs = NoRuns
  /\ saves = NoSaves

\* The patches the editor writes into a node's data: a text change, and the
\* write-backs of a run (an output; an error that is undefined).
DataPatches ==
  {[content |-> "A"],
   [output |-> "out", isLoading |-> FALSE],
   [error |-> Undefined, isLoading |-> FALSE]}

\* The node arrays one mutation of ns can give.
NodeWrites(ns) ==
  {updateNodeData(ns, ns[i].id, patch) : i \in 1..Len(ns), patch \in DataPatches}
    \cup {addNode(ns, IMAGE_INPUT, 4)}
    \cup {NodesWithoutNode(ns, ns[i].id) : i \in 1..Len(ns)}

\* The edge arrays one mutation of es can give.
EdgeWrites(es) ==
  {onConnect(es, Conn(<<TEXT_INPUT, 1>>, <<LLM, 2>>, "system"), 5)}
    \cup {deleteEdge(es, es[i].id) : i \in 1..Len(es)}

\* What the holders of array object ref see once val has been written into
\* it: the same object, with the new contents.
SeenAfterWrite(a, ref, val) == IF a.ref = ref THEN Arr(ref, val) ELSE a

NodesSeenAfterWrite(entries, ref, val) ==
  [i \in 1..Len(entries) |->
     [entries[i] EXCEPT !.nodes = SeenAfterWrite(@, ref, val)]]

EdgesSeenAfterWrite(entries, ref, val) ==
  [i \in 1..Len(entries) |->
     [entries[i] EXCEPT !.edges = SeenAfterWrite(@, ref, val)]]

SSaveState ==
  /\ ops < MaxSnapshotOps
  /\ \E clearFutureStack \in BOOLEAN :
       LET h2 == saveState(H, caller.nodes, caller.edges, clearFutureStack) IN
       /\ past' = h2.past
       /\ future' = h2.future
  /\ probe' = [fn |-> "saveState"]
  /\ ops' = ops + 1
  /\ UNCHANGED <<nodes, edges, now, caller>>
  /\ UNCHANGED <<runs, saves>>

SPushToFuture ==
  /\ ops < MaxSnapshotOps
  /\ LET h2 == pushToFuture(H, caller.nodes, caller.edges) IN
       /\ past' = h2.past
       /\ future' = h2.future
  /\ probe' = [fn |-> "pushToFuture"]
  /\ ops' = ops + 1
  /\ UNCHANGED <<nodes, edges, now, caller>>
  /\ UNCHANGED <<runs, saves>>

SUndo ==
  /\ ops < MaxSnapshotOps
  /\ LET r == undo(H) IN
       /\ past' = r.h.past
       /\ future' = r.h.future
       /\ probe' = [fn |-> "undo", result |-> r.result]
  /\ ops' = ops + 1
  /\ UNCHANGED <<nodes, edges, now, caller>>
  /\ UNCHANGED <<runs, saves>>

SRedo ==
  /\ ops < MaxSnapshotOps
  /\ LET r == redo(H) IN
       /\ past' = r.h.past
       /\ future' = r.h.future
       /\ probe' = [fn |-> "redo", result |-> r.result]
  /\ ops' = ops + 1
  /\ UNCHANGED <<nodes, edges, now, caller>>
  /\ UNCHANGED <<runs, saves>>

\* nodes[i].data = ..., nodes.push(...), nodes.splice(...): the caller's node
\* array is written in place
SWriteNodes ==
  /\ ops < MaxSnapshotOps
  /\ \E val \in NodeWrites(caller.nodes.val) :
       /\ caller' = [caller EXCEPT !.nodes = Arr(caller.nodes.ref, val)]
       /\ past' = NodesSeenAfterWrite(past, caller.nodes.ref, val)
       /\ future' = NodesSeenAfterWrite(future, caller.nodes.ref, val)
  /\ probe' = [fn |-> "write"]
  /\ ops' = ops + 1
  /\ UNCHANGED <<nodes, edges, now>>
  /\ UNCHANGED <<runs, saves>>

SWriteEdges ==
  /\ ops < MaxSnapshotOps
  /\ \E val \in EdgeWrites(caller.edges.val) :
       /\ caller' = [caller EXCEPT !.edges = Arr(caller.edges.ref, val)]
       /\ past' = EdgesSeenAfterWrite(past, caller.edges.ref, val)
       /\ future' = EdgesSeenAfterWrite(future, caller.edges.ref, val)
  /\ probe' = [fn |-> "write"]
  /\ ops' = ops + 1
  /\ UNCHANGED <<nodes, edges, now>>
  /\ UNCHANGED <<runs, saves>>

\* setNodes((nds) => ...): the caller's node array is replaced by a new one
SSetNodes ==
  /\ ops < MaxSnapshotOps
  /\ \E val \in NodeWrites(caller.nodes.val) :
       caller' = [caller EXCEPT !.nodes = Arr(caller.nodes.ref + 1, val)]
  /\ probe' = [fn |-> "set"]
  /\ ops' = ops + 1
  /\ UNCHANGED <<nodes, edges, past, future, now>>
  /\ UNCHANGED <<runs, saves>>

\* setEdges((eds) => ...)
SSetEdges ==
  /\ ops < MaxSnapshotOps
  /\ \E val \in EdgeWrites(caller.edges.val) :
       caller' = [caller EXCEPT !.edges = Arr(caller.edges.ref + 1, val)]
  /\ probe' = [fn |-> "set"]
  /\ ops' = ops + 1
  /\ UNCHANGED <<nodes, edges, past, future, now>>
  /\ UNCHANGED <<runs, saves>>

NextSnapshot ==
  \/ SSaveState
  \/ SPushToFuture
  \/ SUndo
  \/ SRedo
  \/ SWriteNodes
  \/ SWriteEdges
  \/ SSetNodes
  \/ SSetEdges

SpecSnapshot == InitSnapshot /\ [][NextSnapshot]_vars

\* Two data objects that every property read tells apart in nothing: a key
\* one of them lacks is undefined in the other.
SameData(d1, d2) ==
  \A k \in DOMAIN d1 \cup DOMAIN d2 :
    IF k \in DOMAIN d1 \cap DOMAIN d2 THEN d1[k] = d2[k]
    ELSE LET d == IF k \in DOMAIN d1 THEN d1 ELSE d2 IN
         k # "isLoading" /\ d[k] = Undefined

SameNodes(a, b) ==
  /\ Len(a) = Len(b)
  /\ \A i \in 1..Len(a) :
       /\ a[i].id = b[i].id
       /\ a[i].type = b[i].type
       /\ SameData(a[i].data, b[i].data)

SameEdges(a, b) ==
  /\ Len(a) = Len(b)
  /\ \A i \in 1..Len(a) : SameData(a[i], b[i])

\* The entry holds the graph g, in arrays of its own.
HoldsGraph(entry, g) ==
  /\ SameNodes(entry.nodes.val, g.nodes.val)
  /\ SameEdges(entry.edges.val, g.edges.val)
  /\ entry.nodes.ref # g.nodes.ref
  /\ entry.edges.ref # g.edges.ref

\* C8: the entry saveState or pushToFuture stores holds the graph of that
\* moment; no later change of the live graph, written in place or set anew
\* (data patch, run write-back, node or edge added or deleted), changes any
\* entry of past or future; and undo and redo return the stored entry.  So
\* the entry a later undo or redo returns is the graph as it was when the
\* snapshot was taken.
C8_SnapshotIsolation ==
  [][/\ SSaveState => HoldsGraph(Last(past'), caller)
     /\ SPushToFuture => HoldsGraph(Head(future'), caller)
     /\ (SWriteNodes \/ SWriteEdges \/ SSetNodes \/ SSetEdges) =>
          past' = past /\ future' = future
     /\ (SUndo /\ past # <<>>) =>
          probe'.result = Last(past) /\ future' = future
     /\ (SRedo /\ future # <<>>) =>
          probe'.result = Head(future) /\ past' = past]_vars

\* The caller saved, wrote into the same node array afterwards, and the
\* undo that followed returned a graph that is not the caller's present one.
C8_Witness ==
  /\ probe.fn = "undo"
  /\ probe.result # NullEntry
  /\ caller.nodes.ref = SnapshotGraph.nodes.ref
  /\ ~SameNodes(probe.result.nodes.val, caller.nodes.val)

--------------------------------------------------------------------------
(* SpecCycle: wouldCreateCycle as a pure function of the edge array *)

InitCycle ==
  /\ nodes = CycleNodes
  /\ edges \in SeqsUpTo(CycleEdges, MaxCycleEdges)
  /\ past = <<>>
  /\ future = <<>>
  /\ now = 0
  /\ caller = Null
  /\ ops = 0
  /\ probe = NoProbe
  /\ runs = NoRuns
  /\ saves = NoSaves

CallWouldCreateCycle ==
  /\ probe = NoProbe
  /\ \E s \in CycleIds, t \in CycleIds :
       probe' = [fn |-> "wouldCreateCycle", source |-> s, target |-> t,
                 result |-> wouldCreateCycle(s, t, edges)]
  /\ UNCHANGED <<nodes, edges, past, future, now, caller, ops>>
  /\ UNCHANGED <<runs, saves>>

NextCycle == CallWouldCreateCycle

SpecCycle == InitCycle /\ [][NextCycle]_vars

\* C4: wouldCreateCycle(s, t, E) is true exactly when s = t or s is reachable
\* from t along the edges of E (source -> target).
C4_CycleCheckCorrect ==
  probe.fn = "wouldCreateCycle" =>
    (probe.result <=>
       (probe.source = probe.target \/ Reachable(probe.target, probe.source, edges)))

\* C4: with E = <<A->B, B->C>> the candidate C->A is rejected and C->D accepted.
ChainAB_BC == <<NewEdge(Conn(A, B, "text"), 0), NewEdge(Conn(B, C, "text"), 0)>>

C4_Example ==
  (probe.fn = "wouldCreateCycle" /\ edges = ChainAB_BC /\ probe.source = C) =>
    /\ probe.target = A => probe.result
    /\ probe.target = D => ~probe.result

C4_Theorem == C4_CycleCheckCorrect /\ C4_Example

\* The chain example was asked about C->A, and a cycle was found through two edges.
C4_Witness ==
  /\ probe.fn = "wouldCreateCycle"
  /\ edges = ChainAB_BC
  /\ probe.source = C
  /\ probe.target = A
  /\ probe.result

\* What the loop did in the call the probe holds.
ProbedRun == wouldCreateCycleRun(probe.source, probe.target, edges)

\* The nodes of the edge list, and the node the search starts from
NodesOf(es) == {e.source : e \in Range(es)} \cup {e.target : e \in Range(es)}

\* C27: wouldCreateCycle returns after finitely many steps for every finite
\* edge list, lists with directed cycles and duplicate edges included: the
\* loop makes at most one iteration for the start node and one per edge, and
\* it adds each node to visited (and scans its neighbours) at most once.
C27_CycleCheckTerminates ==
  probe.fn = "wouldCreateCycle" =>
    LET run == ProbedRun IN
    /\ run.result = probe.result
    /\ run.iterations <= 1 + Len(edges)
    /\ \A i, j \in 1..Len(run.expanded) : run.expanded[i] = run.expanded[j] => i = j
    /\ Range(run.expanded) \subseteq NodesOf(edges) \cup {probe.target}

\* The search ran over an edge list with a cycle and came back with false
\* after taking a node already visited off the stack.
C27_Witness ==
  /\ probe.fn = "wouldCreateCycle"
  /\ HasCycle(edges)
  /\ ~probe.result
  /\ ProbedRun.iterations > Len(ProbedRun.expanded)

--------------------------------------------------------------------------
(* SpecValidator: isValidConnection over a store of at most two nodes: a   *)
(* source-side node of any kind (or of an unknown kind, or missing from    *)
(* the store) and an LLM node.                                             *)

T2 == <<LLM, 2>>
ValidatorKinds == NodeKinds \cup {UnknownKind}
ValidatorHandles == {Null, Undefined, "output"} \cup HandleKinds

ValidatorEdges(ids) == {NewEdge(Conn(s, t, "text"), 0) : s \in ids, t \in ids}

InitValidator ==
  /\ \E k \in ValidatorKinds :
       /\ nodes \in {<<NewNode(k, 1), NewNode(LLM, 2)>>, <<NewNode(LLM, 2)>>}
       /\ edges \in SeqsUpTo(ValidatorEdges({<<k, 1>>, T2}), MaxValidatorEdges)
       /\ probe = [fn |-> "none", sourceId |-> <<k, 1>>]
  /\ past = <<>>
  /\ future = <<>>
  /\ now = 0
  /\ caller = Null
  /\ ops = 0
  /\ runs = NoRuns
  /\ saves = NoSaves

CallIsValidConnection ==
  /\ probe.fn = "none"
  /\ \E s \in {probe.sourceId, T2, NoId}, t \in {probe.sourceId, T2, NoId},
        h \in ValidatorHandles :
       probe' = [fn |-> "isValidConnection", source |-> s, target |-> t,
                 targetHandle |-> h,
                 result |-> isValidConnection(Conn(s, t, h), nodes, edges)]
  /\ UNCHANGED <<nodes, edges, past, future, now, caller, ops>>
  /\ UNCHANGED <<runs, saves>>

NextValidator == CallIsValidConnection

SpecValidator == InitValidator /\ [][NextValidator]_vars

\* The output type of each kind as the claim spells it out.
ClaimedOutputType(kind) ==
  CASE kind = "text" -> "text"
    [] kind = "image" -> "image"
    [] kind = "system" -> "system"
    [] kind = "llm" -> "text"
    [] kind = "imgDescribe" -> "text"
    [] OTHER -> "<none>"

ProbeSourceKind == TypeOf(FindNode(nodes, probe.source))

Accepted == probe.fn = "isValidConnection" /\ probe.result

\* C2 as stated: every accepted connection with a non-null target handle has
\* the output type of its source node's kind equal to that handle.
C2_Original ==
  (Accepted /\ probe.targetHandle \notin {Null, Undefined}) =>
    ClaimedOutputType(ProbeSourceKind) = probe.targetHandle

\* C2 as amended: every accepted connection whose target handle is neither
\* null/absent nor "output", and whose source node is in the store with one of
\* the five known kinds, has the output type of that kind equal to the handle.
C2_Amended ==
  (/\ Accepted
   /\ probe.targetHandle \notin {Null, Undefined, "output"}
   /\ ProbeSourceKind \in NodeKinds) =>
    ClaimedOutputType(ProbeSourceKind) = probe.targetHandle

\* An image node was accepted on an image handle.
C2_Witness ==
  /\ Accepted
  /\ probe.targetHandle = "image"
  /\ ProbeSourceKind = IMAGE_INPUT
  /\ probe.target = T2

\* C3: isValidConnection with source = target returns false, whatever the
\* target handle, the node's kind and the current edges are.
C3_SelfLoopRejected ==
  (probe.fn = "isValidConnection" /\ probe.source = probe.target) =>
    ~probe.result

\* A self-loop on an existing LLM node, type-compatible, over an empty edge
\* array, was asked about and rejected.
C3_Witness ==
  /\ probe.fn = "isValidConnection"
  /\ probe.source = T2
  /\ probe.target = T2
  /\ probe.targetHandle = "text"
  /\ edges = <<>>
  /\ ~probe.result

\* The kinds isHandleCompatible is asked about: the five known ones, an
\* unknown one, and undefined for a source node that was not found.
AskedKinds == ValidatorKinds \cup {Undefined}

\* The compatibility check is skipped for this kind and this handle.
FailsOpen(kind, handle) ==
  \/ handle \in {Null, Undefined, "output"}
  \/ kind \notin NodeKinds

\* The connection would close a cycle of the edges: it is a self-loop, or
\* its source can be reached from its target.
ClosesCycle(s, t, es) == s = t \/ Reachable(t, s, es)

\* C23: isHandleCompatible returns true for every source kind when the
\* target handle is null, undefined or "output", and for every target handle
\* when the source node's kind is unknown or the source node is not found;
\* in all these cases isValidConnection (with a source and a target) accepts
\* the connection exactly when it would not close a cycle.
C23_ValidatorFailsOpen ==
  /\ \A k \in AskedKinds, h \in ValidatorHandles :
       FailsOpen(k, h) => isHandleCompatible(k, h)
  /\ (/\ probe.fn = "isValidConnection"
      /\ probe.source # NoId
      /\ probe.target # NoId
      /\ FailsOpen(ProbeSourceKind, probe.targetHandle)) =>
       (probe.result <=> ~ClosesCycle(probe.source, probe.target, edges))

\* A connection from a node of an unknown kind to an image handle was turned
\* down for the cycle it would close through an existing edge.
C23_Witness ==
  /\ probe.fn = "isValidConnection"
  /\ ProbeSourceKind = UnknownKind
  /\ probe.targetHandle = "image"
  /\ probe.source # probe.target
  /\ probe.target = T2
  /\ Reachable(T2, probe.source, edges)
  /\ ~probe.result

--------------------------------------------------------------------------
(* lib/utils/inputChaining: collectLLMInputs *)

\* String.prototype.trim() on the texts nodes carry in SpecResolver ("", " ",
\* "A", " B ", "s").  Every other string the resolver trims is one it has put together
\* from trimmed, non-empty pieces, which trim() leaves as it is.
Trim(s) ==
  CASE s = " " -> ""
    [] s = " B " -> "B"
    [] OTHER -> s

\* obj.key, undefined when the object has no such key
Read(obj, key) == IF key \in DOMAIN obj THEN obj[key] ELSE Undefined

NoInputsError == "No inputs connected. Connect a Text node to provide a prompt."
NoInputsErrorImgDescribe ==
  "No inputs connected. Connect Image nodes to provide description."
NoInstructionError ==
  "Image Describe node requires a Model instruction. You can set it in the node's properties panel."
NoImagesError ==
  "No images connected. Connect an Image node to provide an image for description."
NoTextError ==
  "No text input provided. Connect a Text node to the text input handle."

\* const result = { systemPrompt: undefined, userMessage: undefined, ... }
EmptyInputs ==
  [systemPrompt |-> Undefined, userMessage |-> Undefined, images |-> <<>>,
   errors |-> <<>>]

\* edges.filter((edge) => edge.target === llmNodeId)
IncomingEdges(es, llmNodeId) == SelectSeq(es, LAMBDA e : e.target = llmNodeId)

\* Joining with a single newline.
CombineOneNewline(prev, piece) ==
  IF ~Falsy(prev) THEN prev \o "\n" \o piece ELSE piece

\* `${prev}\n\n${piece}` when there is a prev, else piece
Combine(prev, piece) ==
  IF ~Falsy(prev) THEN prev \o "\n\n" \o piece ELSE piece

\* if (text && text.trim()) field = combined
WithText(result, field, text) ==
  IF ~Falsy(text) /\ ~Falsy(Trim(text))
  THEN [result EXCEPT ![field] = Combine(result[field], Trim(text))]
  ELSE result

\* The data URI pushed for an image node's data
ImageWithPrefix(data) ==
  IF ~Falsy(Read(data, "mimeType"))
  THEN "data:" \o data.mimeType \o ";base64," \o data.imageData
  ELSE "data:image/jpeg;base64," \o data.imageData

\* One turn of the loop over incomingEdges
ProcessEdge(result, edge, ns) ==
  LET sourceNode == FindNode(ns, edge.source)
      targetHandle == Read(edge, "targetHandle")
  IN
  IF sourceNode = NoNode THEN result
  ELSE
    CASE targetHandle = SYSTEM_PROMPT ->
           IF sourceNode.type \in {"system", "text"}
           THEN WithText(result, "systemPrompt", Read(sourceNode.data, "content"))
           ELSE result
      [] targetHandle = TEXT_INPUT ->
           IF sourceNode.type \in {TEXT_INPUT, SYSTEM_PROMPT}
           THEN WithText(result, "userMessage", Read(sourceNode.data, "content"))
           ELSE IF sourceNode.type = LLM
           THEN WithText(result, "userMessage", Read(sourceNode.data, "output"))
           ELSE result
      [] targetHandle = IMAGE_INPUT ->
           IF sourceNode.type = IMAGE_INPUT /\ ~Falsy(Read(sourceNode.data, "imageData"))
           THEN [result EXCEPT !.images = Append(@, ImageWithPrefix(sourceNode.data))]
           ELSE result
      [] OTHER -> result

RECURSIVE ProcessEdges(_, _, _)
ProcessEdges(result, incoming, ns) ==
  IF incoming = <<>> THEN result
  ELSE ProcessEdges(ProcessEdge(result, Head(incoming), ns), Tail(incoming), ns)

PushError(result, message) == [result EXCEPT !.errors = Append(@, message)]

\* The ImageDescribe step stopping at its first error.
ImgDescribeStepFirstErrorOnly(result, node) ==
  IF TypeOf(node) # IMG_DESCRIBE THEN result
  ELSE
    LET prompt == Read(node.data, "prompt") IN
    IF ~Falsy(prompt) /\ Trim(prompt) # ""
    THEN LET r1 == [result EXCEPT !.userMessage = Combine(@, Trim(prompt))] IN
         IF r1.images = <<>> THEN PushError(r1, NoImagesError) ELSE r1
    ELSE PushError(result, NoInstructionError)

\* if (node && node.type === NODE_TYPES.IMG_DESCRIBE) { ... }
ImgDescribeStep(result, node) ==
  IF TypeOf(node) # IMG_DESCRIBE THEN result
  ELSE
    LET prompt == Read(node.data, "prompt")
        r1 == IF ~Falsy(prompt) /\ Trim(prompt) # ""
              THEN [result EXCEPT !.userMessage = Combine(@, Trim(prompt))]
              ELSE PushError(result, NoInstructionError)
    IN
    IF r1.images = <<>> THEN PushError(r1, NoImagesError) ELSE r1

\* The final validation left out.
RequireTextSkipped(result, node) == result

\* "Validate required inputs"
RequireText(result, node) ==
  IF \/ Falsy(result.userMessage)
     \/ (Trim(result.userMessage) = "" /\ TypeOf(node) # IMG_DESCRIBE)
  THEN PushError(result, NoTextError)
  ELSE result

\* The first error of a node without incoming edges
FirstError(node) ==
  IF TypeOf(node) = IMG_DESCRIBE THEN NoInputsErrorImgDescribe ELSE NoInputsError

\* collectLLMInputs going on after the no-inputs error instead of returning.
collectLLMInputsNoEarlyReturn(llmNodeId, ns, es) ==
  LET node == FindNode(ns, llmNodeId)
      incomingEdges == IncomingEdges(es, llmNodeId)
      r0 == IF incomingEdges = <<>> THEN PushError(EmptyInputs, FirstError(node))
            ELSE EmptyInputs
  IN
  RequireText(ImgDescribeStep(ProcessEdges(r0, incomingEdges, ns), node), node)

collectLLMInputs(llmNodeId, ns, es) ==
  LET node == FindNode(ns, llmNodeId)
      incomingEdges == IncomingEdges(es, llmNodeId)
  IN
  IF incomingEdges = <<>> THEN PushError(EmptyInputs, FirstError(node))
  ELSE RequireText(ImgDescribeStep(ProcessEdges(EmptyInputs, incomingEdges, ns), node),
                   node)

--------------------------------------------------------------------------
(* lib/utils/inputChaining: executeLLMNode *)

LlmNodeNotFound == "LLM node not found"
ConnectFailed == "Failed to connect to the server. Please try again."
AnErrorOccurred == "An error occurred"

\* What `await fetch("/api/llm", ...)` followed by `await response.json()`
\* can come to: a throw (no connection, a body that is not JSON), or the
\* route's document, a success with some output, with an empty one or with
\* none, or a failure with or without a message.
Responses ==
  {[threw |-> TRUE],
   [threw |-> FALSE, data |-> [success |-> TRUE, output |-> "text"]],
   [threw |-> FALSE, data |-> [success |-> TRUE, output |-> ""]],
   [threw |-> FALSE, data |-> [success |-> FALSE, error |-> "Rate limit"]],
   [threw |-> FALSE, data |-> [success |-> FALSE]]}

\* The body of the POST
\* images: inputs.images.length > 0 ? inputs.images : undefined, and
\* JSON.stringify leaves a key whose value is undefined out of the body.
LlmRequest(node, inputs) ==
  LET model == IF Falsy(Read(node.data, "model")) THEN "gemini-1.5-flash"
               ELSE node.data.model
  IN
  IF Len(inputs.images) > 0
  THEN [model |-> model, system_prompt |-> inputs.systemPrompt,
        user_message |-> inputs.userMessage, images |-> inputs.images]
  ELSE [model |-> model, system_prompt |-> inputs.systemPrompt,
        user_message |-> inputs.userMessage]

\* executeLLMNode up to its await, with the errors ignored.
ExecuteUngated(llmNodeId, ns, es) ==
  LET llmNode == FindNode(ns, llmNodeId) IN
  IF llmNode = NoNode \/ llmNode.type \notin {"llm", IMG_DESCRIBE}
  THEN [fetch |-> FALSE, result |-> [success |-> FALSE, error |-> LlmNodeNotFound]]
  ELSE [fetch |-> TRUE,
        request |-> LlmRequest(llmNode, collectLLMInputs(llmNodeId, ns, es))]

\* executeLLMNode up to its await: either it returns a failure, or it sends
\* the request
ExecuteStart(llmNodeId, ns, es) ==
  LET llmNode == FindNode(ns, llmNodeId) IN
  IF llmNode = NoNode \/ llmNode.type \notin {"llm", IMG_DESCRIBE}
  THEN [fetch |-> FALSE, result |-> [success |-> FALSE, error |-> LlmNodeNotFound]]
  ELSE
    LET inputs == collectLLMInputs(llmNodeId, ns, es) IN
    IF Len(inputs.errors) > 0
    THEN [fetch |-> FALSE, result |-> [success |-> FALSE, error |-> inputs.errors[1]]]
    ELSE [fetch |-> TRUE, request |-> LlmRequest(llmNode, inputs)]

\* executeLLMNode from the response on
ExecuteFinish(response) ==
  IF response.threw THEN [success |-> FALSE, error |-> ConnectFailed]
  ELSE IF response.data.success
  THEN [success |-> TRUE, output |-> Read(response.data, "output")]
  ELSE [success |-> FALSE,
        error |-> IF Falsy(Read(response.data, "error")) THEN AnErrorOccurred
                  ELSE response.data.error]

\* executeLLMNode(llmNodeId, nodes, edges) when the collaborator, if asked,
\* answers with response: whether it was asked, and the result
executeLLMNode(llmNodeId, ns, es, response) ==
  LET start == ExecuteStart(llmNodeId, ns, es) IN
  IF start.fetch
  THEN [fetched |-> TRUE, request |-> start.request,
        result |-> ExecuteFinish(response)]
  ELSE [fetched |-> FALSE, result |-> start.result]

--------------------------------------------------------------------------
(* SpecResolver: collectLLMInputs as a pure function of the graph: two     *)
(* source nodes, a target node (or none), and a few edges                  *)

WithData(type, t, patch) ==
  [NewNode(type, t) EXCEPT !.data = ShallowMerge(@, patch)]

\* The first source: every kind, with and without something to give.
FirstSources ==
  {WithData(TEXT_INPUT, 1, [content |-> c]) : c \in {"", "A", " B "}}
    \cup {WithData(SYSTEM_PROMPT, 1, [content |-> "s"])}
    \cup {NewNode(IMAGE_INPUT, 1),
          WithData(IMAGE_INPUT, 1, [imageData |-> "QUJD", mimeType |-> "image/png"]),
          WithData(IMAGE_INPUT, 1, [imageData |-> "QUJD"])}
    \cup {WithData(LLM, 1, [output |-> c]) : c \in {"", "A"}}
    \cup {WithData(IMG_DESCRIBE, 1, [output |-> "A"])}

SecondSources ==
  {WithData(TEXT_INPUT, 2, [content |-> " B "]),
   WithData(SYSTEM_PROMPT, 2, [content |-> " "]),
   WithData(IMAGE_INPUT, 2, [imageData |-> "QUJD", mimeType |-> "image/png"]),
   WithData(LLM, 2, [output |-> "B"])}

\* The node the resolver is called for sits at time 3; it may be missing.
TargetId(ns) == IF Len(ns) = 3 THEN ns[3].id ELSE <<LLM, 3>>

Targets ==
  {<<>>, <<NewNode(LLM, 3)>>, <<NewNode(TEXT_INPUT, 3)>>, <<NewNode(IMG_DESCRIBE, 3)>>}
    \cup {<<WithData(IMG_DESCRIBE, 3, [prompt |-> c])>> : c \in {"", " ", " B "}}

ResolverGraphs == {<<s1, s2>> \o t : s1 \in FirstSources, s2 \in SecondSources, t \in Targets}

\* Edges into the target from the two sources and from a node that is not
\* there, on every handle, and one edge that does not end at the target.
ResolverEdges(ns) ==
  {NewEdge(Conn(ns[1].id, TargetId(ns), h), 0) : h \in HandleKinds \cup {Null}}
    \cup {NewEdge(Conn(ns[2].id, TargetId(ns), h), 0) : h \in HandleKinds}
    \cup {NewEdge(Conn(<<TEXT_INPUT, 9>>, TargetId(ns), "text"), 0),
          NewEdge(Conn(ns[1].id, ns[2].id, "text"), 0)}

InitResolver ==
  /\ nodes \in ResolverGraphs
  /\ edges \in SeqsUpTo(ResolverEdges(nodes), MaxResolverEdges)
  /\ past = <<>>
  /\ future = <<>>
  /\ now = 0
  /\ caller = Null
  /\ ops = 0
  /\ probe = NoProbe
  /\ runs = NoRuns
  /\ saves = NoSaves

CallCollectLLMInputs ==
  /\ probe = NoProbe
  /\ probe' = [fn |-> "collectLLMInputs", llmNodeId |-> TargetId(nodes),
               result |-> collectLLMInputs(TargetId(nodes), nodes, edges)]
  /\ UNCHANGED <<nodes, edges, past, future, now, caller, ops>>
  /\ UNCHANGED <<runs, saves>>

\* One response is enough when the collaborator is never asked.
ResponsesFor(llmNodeId, ns, es) ==
  IF ExecuteStart(llmNodeId, ns, es).fetch THEN Responses
  ELSE {CHOOSE r \in Responses : r.threw}

CallExecuteLLMNode ==
  /\ probe = NoProbe
  /\ \E response \in ResponsesFor(TargetId(nodes), nodes, edges) :
       LET x == executeLLMNode(TargetId(nodes), nodes, edges, response) IN
       probe' = [fn |-> "executeLLMNode", llmNodeId |-> TargetId(nodes),
                 fetched |-> x.fetched, result |-> x.result,
                 request |-> IF x.fetched THEN x.request ELSE Null,
                 response |-> response]
  /\ UNCHANGED <<nodes, edges, past, future, now, caller, ops>>
  /\ UNCHANGED <<runs, saves>>

NextResolver ==
  \/ CallCollectLLMInputs
  \/ CallExecuteLLMNode

SpecResolver == InitResolver /\ [][NextResolver]_vars

\* No edge of the graph ends at the node the resolver was called for.
NoEdgeTargets(id) == \A i \in 1..Len(edges) : edges[i].target # id

\* C10: called for a node that no edge targets, collectLLMInputs returns
\* exactly one error, systemPrompt and userMessage undefined and no images;
\* the error is "No inputs connected. Connect a Text node to provide a
\* prompt." unless the node is an ImageDescribe node, which gets another
\* wording; none of the later validation errors is appended.
C10_NoInputs ==
  (probe.fn = "collectLLMInputs" /\ NoEdgeTargets(probe.llmNodeId)) =>
    LET r == probe.result
        node == FindNode(nodes, probe.llmNodeId)
    IN
    /\ Len(r.errors) = 1
    /\ r.systemPrompt = Undefined
    /\ r.userMessage = Undefined
    /\ r.images = <<>>
    /\ TypeOf(node) # IMG_DESCRIBE =>
         r.errors[1] = "No inputs connected. Connect a Text node to provide a prompt."
    /\ TypeOf(node) = IMG_DESCRIBE =>
         /\ r.errors[1] # "No inputs connected. Connect a Text node to provide a prompt."
         /\ r.errors[1] = "No inputs connected. Connect Image nodes to provide description."

\* The resolver was called for an ImageDescribe node with no instruction,
\* in a graph whose only edge ends elsewhere: one error, the other wording.
C10_Witness ==
  /\ probe.fn = "collectLLMInputs"
  /\ edges # <<>>
  /\ NoEdgeTargets(probe.llmNodeId)
  /\ TypeOf(FindNode(nodes, probe.llmNodeId)) = IMG_DESCRIBE
  /\ FindNode(nodes, probe.llmNodeId).data.prompt = ""
  /\ probe.result.errors = <<NoInputsErrorImgDescribe>>

\* What a source node gives to a text or system handle, stated from the
\* handle's point of view: the raw text, or nothing when the handle does not
\* take that kind of source.
Offered(source, handle) ==
  IF handle = "system" /\ source.type \in {"system", "text"}
    THEN <<Read(source.data, "content")>>
  ELSE IF handle = "text" /\ source.type \in {"text", "system"}
    THEN <<Read(source.data, "content")>>
  ELSE IF handle = "text" /\ source.type = "llm"
    THEN <<Read(source.data, "output")>>
  ELSE <<>>

\* The trimmed, non-empty texts among raw.
Contributions(raw) ==
  SelectSeq([i \in 1..Len(raw) |-> IF Falsy(raw[i]) THEN "" ELSE Trim(raw[i])],
            LAMBDA t : t # "")

\* The texts the edges into id on handle bring, in edge-array order.
RECURSIVE Pieces(_, _, _)
Pieces(es, id, handle) ==
  IF es = <<>> THEN <<>>
  ELSE
    LET e == Head(es)
        source == FindNode(nodes, e.source)
        here == IF e.target = id /\ e.targetHandle = handle /\ source # NoNode
                THEN Contributions(Offered(source, handle))
                ELSE <<>>
    IN here \o Pieces(Tail(es), id, handle)

\* The data URIs the edges into id on the image handle bring, in order.
RECURSIVE Pictures(_, _)
Pictures(es, id) ==
  IF es = <<>> THEN <<>>
  ELSE
    LET e == Head(es)
        source == FindNode(nodes, e.source)
        here == IF /\ e.target = id
                   /\ e.targetHandle = "image"
                   /\ source # NoNode
                   /\ source.type = "image"
                   /\ source.data.imageData # Null
                THEN <<"data:"
                         \o (IF source.data.mimeType = Null THEN "image/jpeg"
                             ELSE source.data.mimeType)
                         \o ";base64," \o source.data.imageData>>
                ELSE <<>>
    IN here \o Pictures(Tail(es), id)

\* pieces with a blank line between neighbours; undefined when there are none
RECURSIVE JoinBlank(_)
JoinBlank(pieces) ==
  IF pieces = <<>> THEN Undefined
  ELSE IF Len(pieces) = 1 THEN pieces[1]
  ELSE pieces[1] \o "\n\n" \o JoinBlank(Tail(pieces))

\* The instruction an ImageDescribe node adds to its own user message.
OwnPrompt(node) ==
  IF TypeOf(node) = IMG_DESCRIBE
  THEN Contributions(<<Read(node.data, "prompt")>>)
  ELSE <<>>

Resolved == probe.fn = "collectLLMInputs" /\ ~NoEdgeTargets(probe.llmNodeId)

\* C11: when the node has incoming edges, systemPrompt and userMessage are
\* the trimmed, non-empty texts of the sources each handle accepts, in
\* edge-array order, with exactly "\n\n" between neighbours (an
\* ImageDescribe node's own instruction comes last in its userMessage);
\* empty and whitespace-only sources add neither text nor separator; images
\* are in edge-array order.
C11_JoinInEdgeOrder ==
  Resolved =>
    LET id == probe.llmNodeId
        r == probe.result
    IN
    /\ r.systemPrompt = JoinBlank(Pieces(edges, id, "system"))
    /\ r.userMessage =
         JoinBlank(Pieces(edges, id, "text") \o OwnPrompt(FindNode(nodes, id)))
    /\ r.images = Pictures(edges, id)

\* Texts "A" and " B " wired in that order to the text handle of an LLM node.
C11_Witness ==
  /\ Resolved
  /\ TypeOf(FindNode(nodes, probe.llmNodeId)) = LLM
  /\ Len(edges) = 2
  /\ nodes[1].type = TEXT_INPUT /\ nodes[1].data.content = "A"
  /\ nodes[2].type = TEXT_INPUT /\ nodes[2].data.content = " B "
  /\ edges[1].source = nodes[1].id /\ edges[1].targetHandle = "text"
  /\ edges[2].source = nodes[2].id /\ edges[2].targetHandle = "text"
  /\ probe.result.userMessage = "A\n\nB"

\* An instruction that is missing, empty or made of whitespace.
Blank(text) == text \in {Undefined, Null, "", " "}

Has(errors, message) == \E i \in 1..Len(errors) : errors[i] = message

\* C12: for an ImageDescribe node with an incoming edge, the "requires a
\* Model instruction" error is in errors exactly when the node's prompt is
\* empty or whitespace-only; the "No images connected. Connect an Image
\* node" error is in errors exactly when no image node with image data is
\* wired to its image handle; a non-empty prompt is appended, trimmed, to
\* userMessage.
C12_ImgDescribeRequirements ==
  (Resolved /\ TypeOf(FindNode(nodes, probe.llmNodeId)) = IMG_DESCRIBE) =>
    LET id == probe.llmNodeId
        prompt == FindNode(nodes, id).data.prompt
        r == probe.result
    IN
    /\ Has(r.errors, NoInstructionError) <=> Blank(prompt)
    /\ Has(r.errors, NoImagesError) <=> Pictures(edges, id) = <<>>
    /\ ~Blank(prompt) =>
         r.userMessage =
           JoinBlank(Pieces(edges, id, "text") \o Contributions(<<prompt>>))

\* An ImageDescribe node with an image wired and an empty prompt: the
\* instruction error without the images error.
C12_Witness ==
  /\ Resolved
  /\ TypeOf(FindNode(nodes, probe.llmNodeId)) = IMG_DESCRIBE
  /\ FindNode(nodes, probe.llmNodeId).data.prompt = ""
  /\ Len(probe.result.images) = 1
  /\ Has(probe.result.errors, NoInstructionError)
  /\ ~Has(probe.result.errors, NoImagesError)

\* The node executeLLMNode may run: it exists and is an LLM or an
\* ImageDescribe node.
Runnable(node) == TypeOf(node) \in {LLM, IMG_DESCRIBE}

\* C13: executeLLMNode asks the collaborator exactly when the node exists,
\* is an LLM or ImageDescribe node, and collectLLMInputs returned no error;
\* otherwise it fails without asking: with the "not found" error for a node
\* that is missing or of another kind, and else with errors[0], the first
\* error collectLLMInputs appended.
C13_ExecutionGate ==
  probe.fn = "executeLLMNode" =>
    LET node == FindNode(nodes, probe.llmNodeId)
        errors == collectLLMInputs(probe.llmNodeId, nodes, edges).errors
    IN
    /\ probe.fetched <=> (Runnable(node) /\ errors = <<>>)
    /\ ~probe.fetched => ~probe.result.success
    /\ ~Runnable(node) => probe.result.error = "LLM node not found"
    /\ (Runnable(node) /\ errors # <<>>) => probe.result.error = Head(errors)

\* An ImageDescribe node with several validation errors: no request, and the
\* failure is the first of them.
C13_Witness ==
  /\ probe.fn = "executeLLMNode"
  /\ ~probe.fetched
  /\ Len(collectLLMInputs(probe.llmNodeId, nodes, edges).errors) >= 2
  /\ probe.result.error = NoInstructionError

\* C20: after the incoming edges (there is at least one) are processed, the
\* generic "No text input provided" error is in errors exactly when the
\* target is not an ImageDescribe node and userMessage is empty or
\* undefined; for an ImageDescribe target it never is, whatever its prompt
\* and its inputs are.
C20_GenericTextError ==
  Resolved =>
    (Has(probe.result.errors, NoTextError) <=>
       /\ TypeOf(FindNode(nodes, probe.llmNodeId)) # IMG_DESCRIBE
       /\ Blank(probe.result.userMessage))

\* A source of the given kind that holds something in every field a
\* dispatch of the resolver reads.
Loaded(kind) ==
  WithData(kind, 1, [content |-> "A", output |-> "A", imageData |-> "QUJD"])

\* The resolver's dispatch for the handle takes something from a source of
\* the kind: one turn of its loop over an edge from a loaded source leaves
\* the result changed.
ResolverReads(kind, handle) ==
  ProcessEdge(EmptyInputs, NewEdge(Conn(Loaded(kind).id, <<LLM, 3>>, handle), 0),
              <<Loaded(kind)>>) # EmptyInputs

\* The (kind, handle) pairs wired into the target in the current graph.
WiredPairs ==
  {<<FindNode(nodes, edges[i].source).type, edges[i].targetHandle>> :
     i \in {j \in 1..Len(edges) :
              /\ edges[j].target = TargetId(nodes)
              /\ FindNode(nodes, edges[j].source) # NoNode
              /\ edges[j].targetHandle \in HandleKinds}}

\* C29: for every source kind and target handle wired into the target, the
\* validator accepts the pair (isHandleCompatible) exactly when the
\* resolver's dispatch for that handle reads data from a source of that
\* kind.
C29_ValidatorResolverAgreement ==
  \A pair \in WiredPairs :
    isHandleCompatible(pair[1], pair[2]) <=> ResolverReads(pair[1], pair[2])

\* The pairs the validator accepts and the resolver ignores, and the pairs
\* the resolver reads and the validator rejects.
AcceptedButIgnored ==
  {pair \in NodeKinds \X HandleKinds :
     isHandleCompatible(pair[1], pair[2]) /\ ~ResolverReads(pair[1], pair[2])}

ReadButRejected ==
  {pair \in NodeKinds \X HandleKinds :
     ~isHandleCompatible(pair[1], pair[2]) /\ ResolverReads(pair[1], pair[2])}

\* The disagreement is exactly these three pairs.
DisagreementIsThreePairs ==
  /\ AcceptedButIgnored = {<<IMG_DESCRIBE, "text">>}
  /\ ReadButRejected = {<<TEXT_INPUT, "system">>, <<SYSTEM_PROMPT, "text">>}

\* The text has a character that is not white space.
HasNonWhitespace(text) ==
  \E i \in 1..Len(text) : SubSeq(text, i, i) \notin {" ", "\n", "\t"}

\* executeLLMNode was called and sent its request.
Asked == probe.fn = "executeLLMNode" /\ probe.fetched

\* C30: whenever executeLLMNode sends its request, the user_message in it
\* is a string with at least one character that is not white space, and for
\* an ImageDescribe target the request carries a non-empty images list; the
\* one response it gets decides the result, a failed or thrown one is
\* returned as the failure and not asked for again.
C30_WellFormedRequest ==
  Asked =>
    /\ ~Falsy(probe.request.user_message)
    /\ HasNonWhitespace(probe.request.user_message)
    /\ TypeOf(FindNode(nodes, probe.llmNodeId)) = IMG_DESCRIBE =>
         /\ "images" \in DOMAIN probe.request
         /\ Len(probe.request.images) > 0
    /\ probe.result = ExecuteFinish(probe.response)
    /\ (probe.response.threw \/ ~probe.response.data.success) =>
         ~probe.result.success

\* An ImageDescribe node with a text, an image and its own instruction sends
\* "A\n\nB" and one image; the request throws and the failure is returned.
C30_Witness ==
  /\ Asked
  /\ TypeOf(FindNode(nodes, probe.llmNodeId)) = IMG_DESCRIBE
  /\ probe.request.user_message = "A\n\nB"
  /\ Len(probe.request.images) = 1
  /\ probe.response.threw
  /\ probe.result = [success |-> FALSE, error |-> ConnectFailed]

--------------------------------------------------------------------------
(* app/workflow/[id]/page.tsx: handleLLMRun *)

\* updateNodeData(nodeId, { isLoading: true, error: null, output: '' })
RunBegins == [isLoading |-> TRUE, error |-> Null, output |-> ""]

\* The patch handleLLMRun writes for the result of executeLLMNode
WriteBack(result) ==
  IF result.success /\ ~Falsy(Read(result, "output"))
  THEN [output |-> result.output, isLoading |-> FALSE]
  ELSE [error |-> Read(result, "error"), isLoading |-> FALSE]

\* The Run button of node n is enabled (its own while the node is not
\* loading, the properties panel's while no run is flagged), for LLM nodes
CanRun(n) ==
  /\ n.type = LLM
  /\ ~n.data.isLoading \/ ~runs.isLLMRunning

--------------------------------------------------------------------------
(* SpecRun: the editor with runs, from a workflow that can run: an LLM     *)
(* node, then a text node, wired, with the text "A" typed in               *)

RunSetup ==
  handleTextChange(
    handleConnect(
      handleAddNode(handleAddNode(EditorState(<<>>, <<>>, <<>>, <<>>), LLM, 0),
                    TEXT_INPUT, 1),
      Conn(<<TEXT_INPUT, 1>>, <<LLM, 0>>, "text"), 1),
    <<TEXT_INPUT, 1>>, "A")

InitRun ==
  /\ nodes = RunSetup.nodes
  /\ edges = RunSetup.edges
  /\ past = RunSetup.past
  /\ future = RunSetup.future
  /\ now = 1
  /\ caller = Null
  /\ ops = 0
  /\ probe = NoProbe
  /\ runs = NoRuns
  /\ saves = NoSaves

\* handleLLMRun(nodeId) when executeLLMNode sends its request: the node is
\* marked, and the run waits for the response
RunStartUpTo(maxRuns) ==
  /\ runs.started < maxRuns
  /\ \E i \in 1..Len(nodes) :
       LET n == nodes[i]
           start == ExecuteStart(n.id, nodes, edges)
       IN
       /\ CanRun(n)
       /\ start.fetch
       /\ nodes' = updateNodeData(nodes, n.id, RunBegins)
       /\ runs' = [runs EXCEPT
                     !.pending = @ \cup {[run |-> runs.started + 1, nodeId |-> n.id]},
                     !.started = @ + 1,
                     !.isLLMRunning = TRUE]
  /\ UNCHANGED <<edges, past, future, now, caller, ops, probe, saves>>

\* handleLLMRun(nodeId) when executeLLMNode returns a failure without a
\* request: the mark and the write-back are one update
RunRejectedUpTo(maxRuns) ==
  /\ runs.started < maxRuns
  /\ \E i \in 1..Len(nodes) :
       LET n == nodes[i]
           start == ExecuteStart(n.id, nodes, edges)
           patch == WriteBack(start.result)
       IN
       /\ CanRun(n)
       /\ ~start.fetch
       /\ nodes' = updateNodeData(updateNodeData(nodes, n.id, RunBegins), n.id, patch)
       /\ runs' = [runs EXCEPT
                     !.started = @ + 1,
                     !.isLLMRunning = FALSE,
                     !.written = Append(@, [run |-> runs.started + 1,
                                            nodeId |-> n.id, patch |-> patch])]
  /\ UNCHANGED <<edges, past, future, now, caller, ops, probe, saves>>

\* The response of a waiting run arrives (or the fetch throws): the result
\* is written back to the node, if it is still there
RunSettle ==
  /\ \E r \in runs.pending, response \in Responses :
       LET patch == WriteBack(ExecuteFinish(response)) IN
       /\ nodes' = updateNodeData(nodes, r.nodeId, patch)
       /\ runs' = [runs EXCEPT
                     !.pending = @ \ {r},
                     !.isLLMRunning = FALSE,
                     !.written = Append(@, [run |-> r.run, nodeId |-> r.nodeId,
                                            patch |-> patch])]
  /\ UNCHANGED <<edges, past, future, now, caller, ops, probe, saves>>

RunStart == RunStartUpTo(MaxRuns)
RunRejected == RunRejectedUpTo(MaxRuns)

\* The editor's actions between the steps of the runs, a few of them
RunAddNode == ops < MaxRunEdits /\ AddNode
RunConnect == ops < MaxRunEdits /\ Connect
RunDeleteNode == ops < MaxRunEdits /\ DeleteNode
RunDeleteEdge == ops < MaxRunEdits /\ DeleteEdge
RunTextChange == ops < MaxRunEdits /\ TextChange
RunUndo == ops < MaxRunEdits /\ Undo
RunRedo == ops < MaxRunEdits /\ Redo

NextRun ==
  \/ RunAddNode
  \/ RunConnect
  \/ RunDeleteNode
  \/ RunDeleteEdge
  \/ RunTextChange
  \/ RunUndo
  \/ RunRedo
  \/ RunStart
  \/ RunRejected
  \/ RunSettle

SpecRun == InitRun /\ [][NextRun]_vars

\* A response that was sent for is delivered, or the fetch throws.
SpecRunFair == SpecRun /\ WF_vars(RunSettle)

\* C14: every node with a run that has been started and has not written
\* back yet has isLoading true.
C14_InFlightMarker ==
  \A r \in runs.pending :
    LET n == FindNode(nodes, r.nodeId) IN
    n # NoNode => n.data.isLoading

HasOutput(patch) == "output" \in DOMAIN patch /\ ~Falsy(patch.output)
HasError(patch) == "error" \in DOMAIN patch /\ ~Falsy(patch.error)

WriteBacksOf(k) == {i \in 1..Len(runs.written) : runs.written[i].run = k}

\* Every write-back issued clears isLoading and carries an output or an error.
EveryWriteBackSettles ==
  \A i \in 1..Len(runs.written) :
    LET patch == runs.written[i].patch IN
    /\ patch.isLoading = FALSE
    /\ HasOutput(patch) \/ HasError(patch)

\* No run writes back twice.
AtMostOneWriteBack == \A k \in 1..MaxRuns : Cardinality(WriteBacksOf(k)) <= 1

\* Every started run writes back in the end.
EveryRunWritesBack ==
  \A k \in 1..MaxRuns : (runs.started >= k) ~> (WriteBacksOf(k) # {})

\* C15: every started run eventually issues exactly one write-back for its
\* node, and that write-back sets isLoading to false and carries an output
\* or an error, whatever the outcome was (validation failure, success,
\* reported failure, transport failure).
C15_RunCompletes ==
  /\ []EveryWriteBackSettles
  /\ []AtMostOneWriteBack
  /\ EveryRunWritesBack

--------------------------------------------------------------------------
(* SpecOverlap: runs that overlap.  Two LLM nodes read the same text node; *)
(* the node's own Run button is disabled while the node is loading and the *)
(* properties panel's while isLLMRunning is set, which the first run to    *)
(* return clears.  An undo brings back a node that is not loading.         *)

OverlapSetup ==
  handleConnect(
    handleAddNode(RunSetup, LLM, 2),
    Conn(<<TEXT_INPUT, 1>>, <<LLM, 2>>, "text"), 2)

InitOverlap ==
  /\ nodes = OverlapSetup.nodes
  /\ edges = OverlapSetup.edges
  /\ past = OverlapSetup.past
  /\ future = OverlapSetup.future
  /\ now = 2
  /\ caller = Null
  /\ ops = 0
  /\ probe = NoProbe
  /\ runs = NoRuns
  /\ saves = NoSaves

OverlapUndo == ops < MaxOverlapEdits /\ Undo
OverlapRedo == ops < MaxOverlapEdits /\ Redo

NextOverlap ==
  \/ RunStartUpTo(MaxOverlapRuns)
  \/ RunRejectedUpTo(MaxOverlapRuns)
  \/ RunSettle
  \/ OverlapUndo
  \/ OverlapRedo

SpecOverlap == InitOverlap /\ [][NextOverlap]_vars

\* The runs of node id started so far, and those that have written back
RunsOf(id) ==
  {r.run : r \in {p \in runs.pending : p.nodeId = id}}
    \cup {runs.written[i].run : i \in {j \in 1..Len(runs.written) : runs.written[j].nodeId = id}}

InFlight(id) == \E r \in runs.pending : r.nodeId = id

Completed(id) == \E i \in 1..Len(runs.written) : runs.written[i].nodeId = id

\* C21: whenever no run of node n is in flight and at least one run of n has
\* completed, n does not have both a non-null error and a non-empty output
\* (single runs, and overlapping runs of n completing in any order).
C21_ErrorOutputExclusive ==
  \A i \in 1..Len(nodes) :
    LET n == nodes[i] IN
    (n.type = LLM /\ ~InFlight(n.id) /\ Completed(n.id)) =>
      ~(~Falsy(Read(n.data, "error")) /\ ~Falsy(Read(n.data, "output")))

\* The run of node id started last, and what the run numbered k wrote back
LatestRun(id) == CHOOSE k \in RunsOf(id) : \A j \in RunsOf(id) : j <= k

WrittenBy(k) == runs.written[CHOOSE i \in 1..Len(runs.written) : runs.written[i].run = k]

\* The error a run leaves on its node: the null it sets when it starts,
\* unless its write-back carries an error.
ErrorLeftBy(patch) == IF "error" \in DOMAIN patch THEN patch.error ELSE Null

\* C22: once all runs of node n have completed (and no undo or redo has
\* replaced the node meanwhile), n's error and isLoading are those written
\* by the run of n that was started last, in whatever order the responses
\* of overlapping runs came back.
C22_LatestAttemptWins ==
  \A i \in 1..Len(nodes) :
    LET n == nodes[i] IN
    (ops = 0 /\ n.type = LLM /\ ~InFlight(n.id) /\ Completed(n.id)) =>
      LET patch == WrittenBy(LatestRun(n.id)).patch IN
      /\ n.data.isLoading = patch.isLoading
      /\ Read(n.data, "error") = ErrorLeftBy(patch)

\* C28: a node's isLoading is true only if a run of that node is in flight;
\* no sequence of run, add or delete node, undo and redo leaves a node with
\* isLoading true and no pending run.
C28_NoStuckLoading ==
  \A i \in 1..Len(nodes) :
    (nodes[i].type = LLM /\ nodes[i].data.isLoading) => InFlight(nodes[i].id)

--------------------------------------------------------------------------
(* lib/utils/workflow-export: the export file and its import *)

\* JSON values.  A string of JSON text either is malformed or denotes one
\* value; JSON.parse returns that value and JSON.stringify writes the text
\* of the value its argument serialises to.
JUndefined == [kind |-> "undefined"]
JNull == [kind |-> "null"]
JStr(s) == [kind |-> "string", val |-> s]
JNum(n) == [kind |-> "number", num |-> n]
JArr(items) == [kind |-> "array", items |-> items]
JObj(fields) == [kind |-> "object", fields |-> fields]

Text(v) == [malformed |-> FALSE, value |-> v]
Malformed == [malformed |-> TRUE]

\* !v
JFalsy(v) ==
  \/ v.kind \in {"undefined", "null"}
  \/ v.kind = "string" /\ v.val = ""
  \/ v.kind = "number" /\ v.num = 0

\* v.key, for a v that is neither null nor undefined
Get(v, key) ==
  IF v.kind = "object" /\ key \in DOMAIN v.fields THEN v.fields[key]
  ELSE JUndefined

\* v.key throws a TypeError
GetThrows(v) == v.kind \in {"undefined", "null"}

ArrayIsArray(v) == v.kind = "array"

\* What JSON.stringify writes for the nodes and the edges: every element
\* without its undefined-valued keys.
JsonNodes(ns) == JArr([i \in 1..Len(ns) |-> JsonNode(ns[i])])
JsonEdges(es) == JArr([i \in 1..Len(es) |-> JsonEdge(es[i])])

\* An export that leaves the viewport out of the file.
exportWithoutViewport(name, ns, es, viewport, isoNow) ==
  Text(JObj([version |-> JStr("1.0"),
             name |-> JStr(name),
             exportedAt |-> JStr(isoNow),
             data |-> JObj([nodes |-> JsonNodes(ns), edges |-> JsonEdges(es)])]))

\* exportWorkflowToJSON(name, nodes, edges, viewport), isoNow being
\* new Date().toISOString()
exportWorkflowToJSON(name, ns, es, viewport, isoNow) ==
  Text(JObj([version |-> JStr("1.0"),
             name |-> JStr(name),
             exportedAt |-> JStr(isoNow),
             data |-> JObj([nodes |-> JsonNodes(ns),
                            edges |-> JsonEdges(es),
                            viewport |-> JObj(viewport)])]))

InvalidFormat == "Invalid workflow file format"
InvalidStructure == "Invalid workflow data structure"
FailedToParse == "Failed to parse workflow file"

ImportFailure(error) == [success |-> FALSE, error |-> error]

\* importWorkflowFromJSON(json)
importWorkflowFromJSON(json) ==
  IF json.malformed THEN ImportFailure(FailedToParse)
  ELSE LET parsed == json.value IN
    IF GetThrows(parsed) THEN ImportFailure(FailedToParse)
    ELSE IF JFalsy(Get(parsed, "version")) \/ JFalsy(Get(parsed, "data"))
    THEN ImportFailure(InvalidFormat)
    ELSE IF \/ ~ArrayIsArray(Get(Get(parsed, "data"), "nodes"))
            \/ ~ArrayIsArray(Get(Get(parsed, "data"), "edges"))
    THEN ImportFailure(InvalidStructure)
    ELSE [success |-> TRUE, data |-> parsed]

--------------------------------------------------------------------------
(* SpecExport: workflows exported and read back, and files of every shape  *)
(* handed to the import.                                                   *)

ExportNames == {"", "My workflow"}

\* The graphs exported: the empty one, a prompt wired to a model, and the
\* same after a run wrote back an undefined error and with an edge whose
\* targetHandle is undefined.
ExportGraphs ==
  {[nodes |-> <<>>, edges |-> <<>>],
   [nodes |-> RunSetup.nodes, edges |-> RunSetup.edges],
   [nodes |-> updateNodeData(RunSetup.nodes, <<LLM, 0>>,
                             [error |-> Undefined, isLoading |-> FALSE]),
    edges |-> <<NewEdge(Conn(<<TEXT_INPUT, 1>>, <<LLM, 0>>, Undefined), 1)>>]}

ExportViewports ==
  {[x |-> JNum(0), y |-> JNum(0), zoom |-> JNum(1)],
   [x |-> JNum(0 - 120), y |-> JNum(40), zoom |-> JNum(2)]}

ExportTimes == {"2024-01-01T00:00:00.000Z", "2024-06-30T12:00:00.000Z"}

\* The values found under a key of a file: the key missing, null, a string,
\* an object, an array.
OptionalField(key, values) ==
  {<<>>} \cup {[k \in {key} |-> v] : v \in values}

\* r1 and r2 are records over different keys (or the empty tuple for no key)
Merge(r1, r2) ==
  [k \in DOMAIN r1 \cup DOMAIN r2 |-> IF k \in DOMAIN r1 THEN r1[k] ELSE r2[k]]

FileVersions == {JNull, JStr(""), JStr("1.0"), JStr("2.0"), JNum(0), JNum(1)}

FileArrays ==
  {JNull, JStr("x"), JObj(<<>>), JArr(<<>>), JsonNodes(RunSetup.nodes),
   JArr(<<JStr("not a node")>>)}

FileDatas ==
  {JNull, JStr("x"), JArr(<<>>)}
    \cup {JObj(Merge(n, e)) : n \in OptionalField("nodes", FileArrays),
                              e \in OptionalField("edges", FileArrays)}

ImportFiles ==
  {Malformed, Text(JNull), Text(JStr("x")), Text(JArr(<<>>))}
    \cup {Text(JObj(Merge(v, d))) : v \in OptionalField("version", FileVersions),
                                    d \in OptionalField("data", FileDatas)}

InitExport ==
  /\ nodes = <<>>
  /\ edges = <<>>
  /\ past = <<>>
  /\ future = <<>>
  /\ now = 0
  /\ caller = [nodes |-> <<>>, edges |-> <<>>]
  /\ ops = 0
  /\ probe = NoProbe
  /\ runs = NoRuns
  /\ saves = NoSaves

\* importWorkflowFromJSON(exportWorkflowToJSON(name, nodes, edges, viewport))
CallExportThenImport ==
  /\ \E name \in ExportNames, g \in ExportGraphs, viewport \in ExportViewports,
        isoNow \in ExportTimes :
       LET json == exportWorkflowToJSON(name, g.nodes, g.edges, viewport, isoNow) IN
       /\ caller' = g
       /\ probe' = [fn |-> "exportThenImport", name |-> name,
                    viewport |-> viewport, json |-> json,
                    result |-> importWorkflowFromJSON(json)]
  /\ UNCHANGED <<nodes, edges, past, future, now, ops>>
  /\ UNCHANGED <<runs, saves>>

\* importWorkflowFromJSON(json) of a file picked by the user
CallImport ==
  /\ \E json \in ImportFiles :
       probe' = [fn |-> "import", json |-> json,
                 result |-> importWorkflowFromJSON(json)]
  /\ UNCHANGED <<nodes, edges, past, future, now, caller, ops>>
  /\ UNCHANGED <<runs, saves>>

NextExport ==
  \/ CallExportThenImport
  \/ CallImport

SpecExport == InitExport /\ [][NextExport]_vars

\* The parsed file has data.nodes and data.edges, both arrays.
HasBothArrays(json) ==
  /\ ~json.malformed
  /\ ~GetThrows(json.value)
  /\ ~GetThrows(Get(json.value, "data"))
  /\ ArrayIsArray(Get(Get(json.value, "data"), "nodes"))
  /\ ArrayIsArray(Get(Get(json.value, "data"), "edges"))

\* The import of an export succeeds with the exported name, nodes, edges and
\* viewport (read property by property) and version "1.0".
RoundTripHolds ==
  probe.fn = "exportThenImport" =>
    /\ probe.result.success
    /\ LET file == probe.result.data
           data == Get(file, "data") IN
       /\ Get(file, "version") = JStr("1.0")
       /\ Get(file, "name") = JStr(probe.name)
       /\ ArrayIsArray(Get(data, "nodes"))
       /\ ArrayIsArray(Get(data, "edges"))
       /\ SameNodes(Get(data, "nodes").items, caller.nodes)
       /\ SameEdges(Get(data, "edges").items, caller.edges)
       /\ Get(data, "viewport") = JObj(probe.viewport)

\* C16 as stated: the import of an export succeeds and returns the same
\* name, nodes, edges and viewport with version "1.0", and the import accepts
\* a parsed document exactly when data.nodes and data.edges are present and
\* are arrays.
C16_Original ==
  /\ RoundTripHolds
  /\ probe.fn = "import" /\ ~probe.json.malformed =>
       (probe.result.success <=> HasBothArrays(probe.json))

\* C16 as the code has it: the import of an export succeeds and returns the
\* same name, nodes, edges and viewport with version "1.0", and the import
\* accepts a parsed document exactly when its version and its data are
\* truthy and data.nodes and data.edges are arrays; an accepted document is
\* returned as parsed.
C16_Amended ==
  /\ RoundTripHolds
  /\ probe.fn = "import" =>
       /\ probe.result.success <=>
            /\ HasBothArrays(probe.json)
            /\ ~JFalsy(Get(probe.json.value, "version"))
       /\ probe.result.success => probe.result.data = probe.json.value

\* An export of a graph holding undefined-valued keys was read back: the
\* file has no such key and the import returned it.
C16_Witness ==
  /\ probe.fn = "exportThenImport"
  /\ probe.result.success
  /\ Len(caller.nodes) = 2
  /\ Read(caller.nodes[1].data, "error") = Undefined
  /\ "error" \notin DOMAIN Get(Get(probe.result.data, "data"), "nodes").items[1].data

\* A file with both arrays and without a version was turned down.
VersionlessFileRejected ==
  /\ probe.fn = "import"
  /\ HasBothArrays(probe.json)
  /\ ~probe.result.success

--------------------------------------------------------------------------
(* The editor's history: what the handlers save, and the empty stacks *)

\* A step of an editor action that changes the graph's nodes or edges.
GraphMutation ==
  /\ AddNode \/ DeleteNode \/ Connect \/ DeleteEdge
  /\ <<nodes, edges>>' # <<nodes, edges>>

\* C17: every graph-mutating editor action (add node, delete node, connect
\* edge, delete edge) pushes a snapshot of the graph as it was immediately
\* before the action, so that an undo right after it restores exactly that
\* graph.
C17_PreImageSnapshots ==
  [][GraphMutation =>
       /\ Len(past') > 0
       /\ SameNodes(Last(past').nodes.val, nodes)
       /\ SameEdges(Last(past').edges.val, edges)
       /\ SameNodes(handleUndo(St').nodes, nodes)
       /\ SameEdges(handleUndo(St').edges, edges)]_vars

\* C18: handleUndo with an empty past stack leaves the graph, the past stack
\* and the future stack unchanged, and handleRedo with an empty future stack
\* likewise.
C18_EmptyStackNoOp ==
  [][/\ Undo /\ past = <<>> => UNCHANGED <<nodes, edges, past, future>>
     /\ Redo /\ future = <<>> => UNCHANGED <<nodes, edges, past, future>>]_vars

UniqueNodeIds ==
  \A i, j \in 1..Len(nodes) : nodes[i].id = nodes[j].id => i = j

UniqueEdgeIds ==
  \A i, j \in 1..Len(edges) : edges[i].id = edges[j].id => i = j

\* A node that is there before and after a step has the type it had.
TypesKept ==
  \A i \in 1..Len(nodes), j \in 1..Len(nodes') :
    nodes[i].id = nodes'[j].id => nodes[i].type = nodes'[j].type

\* C25: after any sequence of add node, connect, delete node, delete edge,
\* data patch, undo and redo, no two live nodes share an id and no two live
\* edges share an id (also when two additions fall within one clock tick),
\* and a node's type never changes while it exists.
C25_UniqueIds ==
  /\ [](UniqueNodeIds /\ UniqueEdgeIds)
  /\ [][TypesKept]_vars

--------------------------------------------------------------------------
(* SpecPatch: updateNodeData called once on a small graph, for ids that    *)
(* are and are not in it and patches that override, add and omit keys.     *)

Placed(n, x, y) ==
  [id |-> n.id, type |-> n.type, data |-> n.data, position |-> [x |-> x, y |-> y]]

PatchedNodes ==
  {Placed(NewNode(TEXT_INPUT, 1), 0, 0),
   Placed(NewNode(LLM, 2), 100, 50),
   Placed(WithData(LLM, 2, [output |-> "old", error |-> "Rate limit"]), 0, 50),
   Placed(NewNode(LLM, 3), 200, 0)}

PatchIds == {<<TEXT_INPUT, 1>>, <<LLM, 2>>, <<LLM, 4>>}

Patches ==
  {<<>>,
   [content |-> "A"],
   [model |-> "other"],
   RunBegins,
   [output |-> "text", isLoading |-> FALSE],
   [error |-> Undefined, isLoading |-> FALSE]}

PatchEdges == {<<>>, <<NewEdge(Conn(<<TEXT_INPUT, 1>>, <<LLM, 2>>, "text"), 3)>>}

InitPatch ==
  /\ nodes \in SeqsUpTo(PatchedNodes, MaxPatchNodes)
  /\ edges \in PatchEdges
  /\ past = <<>>
  /\ future = <<>>
  /\ now = 0
  /\ caller = Null
  /\ ops = 0
  /\ probe = NoProbe
  /\ runs = NoRuns
  /\ saves = NoSaves

\* updateNodeData(nodeId, data): one setNodes, nothing else
CallUpdateNodeData ==
  /\ probe = NoProbe
  /\ \E nodeId \in PatchIds, patch \in Patches :
       /\ nodes' = updateNodeData(nodes, nodeId, patch)
       /\ probe' = [fn |-> "updateNodeData", nodeId |-> nodeId, patch |-> patch,
                    nodes |-> nodes, edges |-> edges]
  /\ UNCHANGED <<edges, past, future, now, caller, ops>>
  /\ UNCHANGED <<runs, saves>>

NextPatch == CallUpdateNodeData

SpecPatch == InitPatch /\ [][NextPatch]_vars

\* The node after is the node before with the patch merged into its data:
\* the patch's keys have the patch's values, the other data keys and the
\* node's id, type and position are as before.
Patched(after, before, patch) ==
  /\ DOMAIN after = DOMAIN before
  /\ after.id = before.id
  /\ after.type = before.type
  /\ after.position = before.position
  /\ DOMAIN after.data = DOMAIN before.data \cup DOMAIN patch
  /\ \A k \in DOMAIN patch : after.data[k] = patch[k]
  /\ \A k \in DOMAIN before.data \ DOMAIN patch : after.data[k] = before.data[k]

\* C24: updateNodeData(id, patch) changes only the data of the node whose id
\* matches, setting each key of patch to the patch value and leaving every
\* other data key, the node's id, type and position, every other node and
\* the edges unchanged; if no node has that id, nothing changes.
C24_ShallowMergeFrame ==
  probe.fn = "updateNodeData" =>
    /\ edges = probe.edges
    /\ Len(nodes) = Len(probe.nodes)
    /\ \A i \in 1..Len(nodes) :
         IF probe.nodes[i].id = probe.nodeId
         THEN Patched(nodes[i], probe.nodes[i], probe.patch)
         ELSE nodes[i] = probe.nodes[i]
    /\ FindNode(probe.nodes, probe.nodeId) = NoNode => nodes = probe.nodes

\* A run's first patch was merged into an LLM node that held an old output
\* and error, next to a text node: three keys overridden, two kept.
C24_Witness ==
  /\ probe.fn = "updateNodeData"
  /\ probe.patch = RunBegins
  /\ Len(nodes) = 2
  /\ probe.nodes[1].id # probe.nodeId
  /\ probe.nodeId = <<LLM, 2>>
  /\ probe.nodes[2].id = probe.nodeId
  /\ probe.nodes[2].data.output = "old"
  /\ nodes[2].data.output = ""
  /\ nodes[2].data.model = "default"

--------------------------------------------------------------------------
(* hooks/useAutoSave: debounced saves of the graph to the store *)

MAX_RETRIES == 2

ConnectError == "Failed to connect to server"
UpdateError == "Failed to update workflow"

\* What updateWorkflow resolves to (it catches everything, so it never
\* rejects): the store took the data, the fetch failed, the server refused.
SaveOutcomes == {"success", "connect", "refused"}

\* The check after the await looks at the controller in the ref, which is
\* the one the latest performSave made.
\* abortControllerRef.current?.signal.aborted is false
GoesOn(s) == s.current \notin s.aborted

\* performSave(retryCount) of the render whose graph is data, up to the await
performSave(s, data, retryCount) ==
  [s EXCEPT
     !.aborted = IF s.current # 0 THEN @ \cup {s.current} ELSE @,
     !.made = @ + 1,
     !.current = s.made + 1,
     !.saveStatus = "saving",
     !.error = Null,
     !.inflight = @ \cup {[controller |-> s.made + 1, data |-> data,
                           retryCount |-> retryCount]}]

\* performSave after the await, for the request r and its outcome
AfterSave(s, r, outcome) ==
  LET s1 == [s EXCEPT !.inflight = @ \ {r},
                      !.store = IF outcome = "success" THEN r.data ELSE @]
  IN
  IF ~GoesOn(s1) THEN s1
  ELSE IF outcome = "success"
  THEN [s1 EXCEPT !.saveStatus = "saved", !.lastSavedAt = r.controller,
                  !.error = Null]
  ELSE IF r.retryCount < MAX_RETRIES /\ outcome = "connect"
  THEN [s1 EXCEPT !.timers = @ \cup {[data |-> r.data,
                                      retryCount |-> r.retryCount + 1]}]
  ELSE [s1 EXCEPT !.saveStatus = "error",
                  !.error = IF outcome = "connect" THEN ConnectError
                            ELSE UpdateError]

--------------------------------------------------------------------------
(* SpecAutoSave: the graph is edited a few times; the debounce timer, the  *)
(* retry timers and the responses come in any order.                       *)

InitAutoSave ==
  /\ nodes = <<>>
  /\ edges = <<>>
  /\ past = <<>>
  /\ future = <<>>
  /\ now = 0
  /\ caller = Null
  /\ ops = 0
  /\ probe = NoProbe
  /\ runs = NoRuns
  /\ saves = NoSaves

AutoSaveFrame == UNCHANGED <<nodes, edges, past, future, now, caller, ops, probe, runs>>

\* The graph changes: the effect sees other data and triggerSave restarts
\* the debounce timer
AutoEdit ==
  /\ saves.version < MaxAutoSaveEdits
  /\ saves' = [saves EXCEPT !.version = @ + 1, !.debounce = TRUE]
  /\ AutoSaveFrame

\* The debounce timer fires: performSave() of the latest render
DebounceFires ==
  /\ saves.debounce
  /\ saves' = performSave([saves EXCEPT !.debounce = FALSE], saves.version, 0)
  /\ AutoSaveFrame

\* A retry timer fires: performSave(retryCount + 1) of the render that
\* started the save
RetryFires ==
  /\ \E t \in saves.timers :
       saves' = performSave([saves EXCEPT !.timers = @ \ {t}], t.data, t.retryCount)
  /\ AutoSaveFrame

\* updateWorkflow of the request r resolves
SaveReturns(r, outcome) ==
  /\ r \in saves.inflight
  /\ saves' = AfterSave(saves, r, outcome)
  /\ AutoSaveFrame

SaveReturnsSome == \E r \in saves.inflight, outcome \in SaveOutcomes : SaveReturns(r, outcome)

\* The timer set on success puts 'saved' back to 'idle'
SavedBecomesIdle ==
  /\ saves.saveStatus = "saved"
  /\ saves' = [saves EXCEPT !.saveStatus = "idle"]
  /\ AutoSaveFrame

NextAutoSave ==
  \/ AutoEdit
  \/ DebounceFires
  \/ RetryFires
  \/ SaveReturnsSome
  \/ SavedBecomesIdle

SpecAutoSave == InitAutoSave /\ [][NextAutoSave]_vars

\* A newer performSave started while the request r was in flight.
Superseded(r) == r.controller # saves.current

\* C26: when a new performSave starts while an earlier save request is in
\* flight, the earlier request's completion, success or failure, neither
\* updates saveStatus, error or lastSavedAt nor schedules a retry, and the
\* store never goes back from newer graph data to older.
C26_Supersession ==
  /\ [][\A r \in saves.inflight, outcome \in SaveOutcomes :
          (Superseded(r) /\ SaveReturns(r, outcome)) =>
            /\ saves'.saveStatus = saves.saveStatus
            /\ saves'.error = saves.error
            /\ saves'.lastSavedAt = saves.lastSavedAt
            /\ saves'.timers = saves.timers]_vars
  /\ [][saves'.store >= saves.store]_vars

==========================================================================
